---- MODULE Spec2Model ----
(***************************************************************************)
(* The sprite editor of sti-manager: the live editable collection held by  *)
(* App (state.editableSti, state.currentImageIndex) and the ImageEditor    *)
(* component working on it (paint tools, stroke state, undo/redo history). *)
(*                                                                         *)
(* JavaScript arrays of samples are objects with identity: they live in    *)
(* `heap`, and images hold references into it, so that sharing between the *)
(* live collection and stored history entries is part of the state.        *)
(* React renders after every handler, so a handler reads the state left by *)
(* the previous one; the setTimeout callback of undo/redo is a step of its *)
(* own.                                                                    *)
(***************************************************************************)
EXTENDS Integers, Sequences, FiniteSets, TLC

(* ------------------------------ bounds -------------------------------- *)
\* Frames of the loaded file (1..MaxLoadedFrames).
MaxLoadedFrames == 2
\* Largest number of frames addNewImage is let to build up.
MaxFrames == 2
\* Edits (strokes, added and deleted frames) in one editing session.
MaxEdits == 2
\* Edits in a session on a one-frame indexed file.
MaxDeepEdits == 3
\* Edits in a session in which every tool is picked.
MaxToolEdits == 2
\* Intents of the user in a session of App (clicks that start something).
MaxAppOps == 5
\* Runs of async handlers waiting for the backend at one time.
MaxCalls == 2
\* Collections written in a session of App: strokes saved, list commits.
MaxRevs == 2
\* Edits of the long session beyond the ones that fill the history.
LongExtra == 2
\* Pending setTimeout callbacks of undo/redo.
MaxTimers == 1
\* Paint calls in one stroke after the pointer-down.
MaxMoves == 1
\* User actions on the image list and the tool bar in one session.
MaxListOps == 7
\* Runs of loadImageMetadata under way when another file is clicked.
MaxLoads == 1

\* Width and height of the frames of the loaded file.
LoadedWidth == 2
LoadedHeight == 1

(* ------------------------- program constants -------------------------- *)
HistoryLimit == 50
ShiftedIndex == 49
NewImageWidth == 64
NewImageHeight == 64

\* Values a sample slot can hold besides a number: a hole / undefined, and
\* the null JSON.stringify writes for it.
JsUndefined == -1
JsNull == -2

Min(S) == CHOOSE m \in S : \A o \in S : m <= o
Max2(a, b) == IF a >= b THEN a ELSE b

(* ---------------- number[] as a run-length sequence ------------------- *)
\* An array is a sequence of runs [n, v]: n >= 1 consecutive slots holding v,
\* adjacent runs holding different values (one array, one representation).
Run(n, v) == [n |-> n, v |-> v]

RECURSIVE Normalize(_)
Normalize(a) ==
  IF a = <<>> THEN <<>>
  ELSE LET h == Head(a)
           t == Normalize(Tail(a))
       IN IF h.n = 0 THEN t
          ELSE IF t # <<>> /\ Head(t).v = h.v
               THEN <<Run(h.n + Head(t).n, h.v)>> \o Tail(t)
               ELSE <<h>> \o t

RECURSIVE ArrLen(_)
ArrLen(a) == IF a = <<>> THEN 0 ELSE Head(a).n + ArrLen(Tail(a))

\* a[i], 0-based; undefined beyond the length.
RECURSIVE ArrGet(_, _)
ArrGet(a, i) ==
  IF a = <<>> THEN JsUndefined
  ELSE IF i < Head(a).n THEN Head(a).v ELSE ArrGet(Tail(a), i - Head(a).n)

\* a[i] = v; an index at or beyond the length grows the array, leaving holes.
RECURSIVE SetRuns(_, _, _)
SetRuns(a, i, v) ==
  IF a = <<>> THEN <<Run(i, JsUndefined), Run(1, v)>>
  ELSE LET h == Head(a)
       IN IF i >= h.n THEN <<h>> \o SetRuns(Tail(a), i - h.n, v)
          ELSE <<Run(i, h.v), Run(1, v), Run(h.n - i - 1, h.v)>> \o Tail(a)

ArrSet(a, i, v) == Normalize(SetRuns(a, i, v))

\* new Array(n).fill(v)
ArrFill(n, v) == Normalize(<<Run(n, v)>>)

JsonArray(a) ==
  \* JSON.parse(JSON.stringify(a)): numbers survive, holes and undefined
  \* come back as null.
  LET JsonSample(v) == IF v = JsUndefined THEN JsNull ELSE v
  IN Normalize([k \in 1..Len(a) |-> Run(a[k].n, JsonSample(a[k].v))])

(* ------------------------------ heap ---------------------------------- *)
\* The smallest reference not in use.
NewRef(h) == Min({r \in 1..(Cardinality(DOMAIN h) + 1) : r \notin DOMAIN h})

\* The collection with every array read out of the heap.
StiVal(h, sti) ==
  [is_8bit |-> sti.is_8bit,
   palette |-> sti.palette,
   images |-> [j \in 1..Len(sti.images) |->
                [width |-> sti.images[j].width,
                 height |-> sti.images[j].height,
                 data |-> h[sti.images[j].data]]]]

\* JSON.parse(JSON.stringify(editableSti)): a collection of fresh arrays.
RECURSIVE CopyImages(_, _, _)
CopyImages(h, imgs, done) ==
  IF Len(done) = Len(imgs) THEN [heap |-> h, images |-> done]
  ELSE LET img == imgs[Len(done) + 1]
           r == NewRef(h)
       IN CopyImages((r :> JsonArray(h[img.data])) @@ h, imgs,
                     Append(done, [img EXCEPT !.data = r]))

DeepCopy(h, sti) ==
  LET c == CopyImages(h, sti.images, <<>>)
  IN [heap |-> c.heap, sti |-> [sti EXCEPT !.images = c.images]]

(* ------------------------------ state --------------------------------- *)
VARIABLES
  heap,               \* reference -> number[] (the sample arrays)
  editableSti,        \* App state.editableSti: the live collection
  currentImageIndex,  \* App state.currentImageIndex
  history,            \* historyState.history
  index,              \* historyState.index (0-based cursor)
  isHistoryAction,    \* true from an undo/redo until its timeout runs
  timers,             \* setTimeout(() => setIsHistoryAction(false), 0) pending
  tool,               \* tool.type
  selectedColor,
  isDrawing,
  isDragging,
  strokeStarted,
  hasUnsavedChanges,
  moves,              \* paint calls of the running stroke after pointer-down
  snapshots,          \* entries pushed onto the history so far
  edits,              \* edits begun so far in this session
  budget,             \* edits this session is explored for
  loaded              \* the collection as it came from enterEditMode, by value

editorVars == <<heap, editableSti, currentImageIndex, history, index,
                isHistoryAction, timers, tool, selectedColor, isDrawing,
                isDragging, strokeStarted, hasUnsavedChanges, moves, snapshots,
                edits, budget, loaded>>

\* The program state as one record, so that handlers compose.
St ==
  [heap |-> heap, editableSti |-> editableSti,
   currentImageIndex |-> currentImageIndex, history |-> history, index |-> index,
   isHistoryAction |-> isHistoryAction, timers |-> timers, tool |-> tool,
   selectedColor |-> selectedColor, isDrawing |-> isDrawing,
   isDragging |-> isDragging, strokeStarted |-> strokeStarted,
   hasUnsavedChanges |-> hasUnsavedChanges, moves |-> moves,
   snapshots |-> snapshots]

Tools == {"brush", "eraser", "eyedropper", "pan"}
\* The tools that paint.
StrokeTools == {"brush", "eraser"}

SomePalette ==
  \* Palette of the loaded file: [R, G, B] triples, index 0 the transparent slot.
  LET LoadedPalette == <<<<255, 0, 255>>, <<255, 0, 0>>>>
  IN [present |-> TRUE, colors |-> LoadedPalette]

\* currentImage = editableSti.images[currentImageIndex]
HasCurrentImage(s) ==
  s.currentImageIndex >= 0 /\ s.currentImageIndex < Len(s.editableSti.images)
CurrentImage(s) == s.editableSti.images[s.currentImageIndex + 1]

(* ----------------------------- handlers ------------------------------- *)
\* Garbage collection: drops the arrays nothing refers to any more and
\* numbers the others in the order the history and then the live collection
\* reach them (a reference carries no meaning but its identity).
RECURSIVE FlatRefs(_, _)
FlatRefs(stis, acc) ==
  IF stis = <<>> THEN acc
  ELSE FlatRefs(Tail(stis),
                acc \o [j \in 1..Len(Head(stis).images) |-> Head(stis).images[j].data])

RECURSIVE Distinct(_, _)
Distinct(refs, acc) ==
  IF refs = <<>> THEN acc
  ELSE IF \E i \in 1..Len(acc) : acc[i] = Head(refs)
       THEN Distinct(Tail(refs), acc)
       ELSE Distinct(Tail(refs), Append(acc, Head(refs)))

Collect(s0) ==
  LET Renamed(sti, order) ==
        [sti EXCEPT !.images =
           [j \in 1..Len(sti.images) |->
              [sti.images[j] EXCEPT !.data =
                 CHOOSE i \in 1..Len(order) : order[i] = sti.images[j].data]]]
  \* (the handler's result is worked out once)
      s == CHOOSE v \in {s0} : TRUE
      stis == [k \in 1..Len(s.history) |-> s.history[k].editableSti]
              \o <<s.editableSti>>
      order == Distinct(FlatRefs(stis, <<>>), <<>>)
  IN [s EXCEPT !.heap = [i \in 1..Len(order) |-> s.heap[order[i]]],
               !.editableSti = Renamed(s.editableSti, order),
               !.history = [k \in 1..Len(s.history) |->
                              [s.history[k] EXCEPT !.editableSti =
                                 Renamed(s.history[k].editableSti, order)]]]

\* saveToHistory with the new cursor one past the last entry.
saveToHistory_CursorPastEnd(s, actionDescription) ==
  IF s.isHistoryAction THEN s
  ELSE LET c == DeepCopy(s.heap, s.editableSti)
           newState == [editableSti |-> c.sti,
                        currentImageIndex |-> s.currentImageIndex,
                        actionDescription |-> actionDescription]
           pushed == Append(SubSeq(s.history, 1, s.index + 1), newState)
           over == Len(pushed) > HistoryLimit
       IN [s EXCEPT !.heap = c.heap,
                    !.history = IF over THEN Tail(pushed) ELSE pushed,
                    !.index = IF over THEN ShiftedIndex + 1 ELSE Len(pushed),
                    !.snapshots = s.snapshots + 1]

\* saveToHistory pushing onto the whole log, the entries after the cursor kept.
saveToHistory_NoTruncation(s, actionDescription) ==
  IF s.isHistoryAction THEN s
  ELSE LET c == DeepCopy(s.heap, s.editableSti)
           newState == [editableSti |-> c.sti,
                        currentImageIndex |-> s.currentImageIndex,
                        actionDescription |-> actionDescription]
           pushed == Append(s.history, newState)
           over == Len(pushed) > HistoryLimit
       IN [s EXCEPT !.heap = c.heap,
                    !.history = IF over THEN Tail(pushed) ELSE pushed,
                    !.index = IF over THEN ShiftedIndex ELSE Len(pushed) - 1,
                    !.snapshots = s.snapshots + 1]

\* saveToHistory without the capacity limit.
saveToHistory_NoEviction(s, actionDescription) ==
  IF s.isHistoryAction THEN s
  ELSE LET c == DeepCopy(s.heap, s.editableSti)
           newState == [editableSti |-> c.sti,
                        currentImageIndex |-> s.currentImageIndex,
                        actionDescription |-> actionDescription]
           pushed == Append(SubSeq(s.history, 1, s.index + 1), newState)
       IN [s EXCEPT !.heap = c.heap,
                    !.history = pushed,
                    !.index = Len(pushed) - 1,
                    !.snapshots = s.snapshots + 1]

saveToHistory(s, actionDescription) ==
  IF s.isHistoryAction THEN s
  ELSE LET c == DeepCopy(s.heap, s.editableSti)
           newState == [editableSti |-> c.sti,
                        currentImageIndex |-> s.currentImageIndex,
                        actionDescription |-> actionDescription]
           pushed == Append(SubSeq(s.history, 1, s.index + 1), newState)
           over == Len(pushed) > HistoryLimit
       IN [s EXCEPT !.heap = c.heap,
                    !.history = IF over THEN Tail(pushed) ELSE pushed,
                    !.index = IF over THEN ShiftedIndex ELSE Len(pushed) - 1,
                    !.snapshots = s.snapshots + 1]

\* handleUndo moving the cursor without installing the entry.
handleUndo_NoInstall(s) ==
  IF s.index <= 0 THEN s
  ELSE [s EXCEPT !.isHistoryAction = TRUE,
                 !.index = s.index - 1,
                 !.timers = s.timers + 1]

\* handleUndo raising isHistoryAction before it looks at the cursor.
handleUndo_FlagBeforeGuard(s) ==
  IF s.index <= 0
  THEN [s EXCEPT !.isHistoryAction = TRUE, !.timers = s.timers + 1]
  ELSE LET previousState == s.history[s.index]
       IN [s EXCEPT !.isHistoryAction = TRUE,
                    !.editableSti = previousState.editableSti,
                    !.currentImageIndex = previousState.currentImageIndex,
                    !.index = s.index - 1,
                    !.timers = s.timers + 1]

\* handleUndo installing the entry under the cursor, not the one before it.
handleUndo_CurrentEntry(s) ==
  IF s.index <= 0 THEN s
  ELSE LET previousState == s.history[s.index + 1]
       IN [s EXCEPT !.isHistoryAction = TRUE,
                    !.editableSti = previousState.editableSti,
                    !.currentImageIndex = previousState.currentImageIndex,
                    !.index = s.index - 1,
                    !.timers = s.timers + 1]

handleUndo(s) ==
  IF s.index <= 0 THEN s
  ELSE LET previousState == s.history[s.index]
       IN [s EXCEPT !.isHistoryAction = TRUE,
                    !.editableSti = previousState.editableSti,
                    !.currentImageIndex = previousState.currentImageIndex,
                    !.index = s.index - 1,
                    !.timers = s.timers + 1]

\* handleRedo installing the next entry without moving the cursor.
handleRedo_NoAdvance(s) ==
  IF s.index >= Len(s.history) - 1 THEN s
  ELSE LET nextState == s.history[s.index + 2]
       IN [s EXCEPT !.isHistoryAction = TRUE,
                    !.editableSti = nextState.editableSti,
                    !.currentImageIndex = nextState.currentImageIndex,
                    !.timers = s.timers + 1]

handleRedo(s) ==
  IF s.index >= Len(s.history) - 1 THEN s
  ELSE LET nextState == s.history[s.index + 2]
       IN [s EXCEPT !.isHistoryAction = TRUE,
                    !.editableSti = nextState.editableSti,
                    !.currentImageIndex = nextState.currentImageIndex,
                    !.index = s.index + 1,
                    !.timers = s.timers + 1]

\* getPixelCoordinates taking the column and the row just past the image
\* for pixels of it.
getPixelCoordinates_Inclusive(s, pixelX, pixelY) ==
  LET img == CurrentImage(s)
  IN IF pixelX >= 0 /\ pixelX <= img.width /\ pixelY >= 0 /\ pixelY <= img.height
     THEN [ok |-> TRUE, x |-> pixelX, y |-> pixelY]
     ELSE [ok |-> FALSE, x |-> 0, y |-> 0]

\* The pixel under the pointer, or null when it is outside the image;
\* pixelX, pixelY are the floored image coordinates of the pointer.
getPixelCoordinates(s, pixelX, pixelY) ==
  LET img == CurrentImage(s)
  IN IF pixelX >= 0 /\ pixelX < img.width /\ pixelY >= 0 /\ pixelY < img.height
     THEN [ok |-> TRUE, x |-> pixelX, y |-> pixelY]
     ELSE [ok |-> FALSE, x |-> 0, y |-> 0]

\* (r << 11) | (g << 5) | b of a palette colour, channels cut to 5-6-5 bits.
Rgb565(color) ==
  (color[1] \div 8) * 2048 + (color[2] \div 4) * 32 + (color[3] \div 8)

\* PaintedData whose eraser writes the selected colour in indexed mode.
PaintedData_EraserPaintsColor(s, old, x, y) ==
  LET img == CurrentImage(s)
      sti == s.editableSti
  IN IF sti.is_8bit
     THEN LET dataIndex == y * img.width + x
          IN IF s.tool = "brush" THEN ArrSet(old, dataIndex, s.selectedColor)
             ELSE IF s.tool = "eraser" THEN ArrSet(old, dataIndex, s.selectedColor)
             ELSE old
     ELSE LET dataIndex == (y * img.width + x) * 2
          IN IF s.tool = "brush" /\ sti.palette.present
                /\ s.selectedColor < Len(sti.palette.colors)
             THEN LET rgb565 == Rgb565(sti.palette.colors[s.selectedColor + 1])
                  IN ArrSet(ArrSet(old, dataIndex, rgb565 % 256),
                            dataIndex + 1, (rgb565 \div 256) % 256)
             ELSE old

\* PaintedData taking the sample of pixel (x, y) to be at x * width + y.
PaintedData_Transposed(s, old, x, y) ==
  LET img == CurrentImage(s)
      sti == s.editableSti
  IN IF sti.is_8bit
     THEN LET dataIndex == x * img.width + y
          IN IF s.tool = "brush" THEN ArrSet(old, dataIndex, s.selectedColor)
             ELSE IF s.tool = "eraser" THEN ArrSet(old, dataIndex, 0)
             ELSE old
     ELSE LET dataIndex == (x * img.width + y) * 2
          IN IF s.tool = "brush" /\ sti.palette.present
                /\ s.selectedColor < Len(sti.palette.colors)
             THEN LET rgb565 == Rgb565(sti.palette.colors[s.selectedColor + 1])
                  IN ArrSet(ArrSet(old, dataIndex, rgb565 % 256),
                            dataIndex + 1, (rgb565 \div 256) % 256)
             ELSE old

\* The sample array paintPixel builds from a copy of the current one.
PaintedData(s, old, x, y) ==
  LET img == CurrentImage(s)
      sti == s.editableSti
  IN IF sti.is_8bit
     THEN LET dataIndex == y * img.width + x
          IN IF s.tool = "brush" THEN ArrSet(old, dataIndex, s.selectedColor)
             ELSE IF s.tool = "eraser" THEN ArrSet(old, dataIndex, 0)
             ELSE old
     ELSE LET dataIndex == (y * img.width + x) * 2
          IN IF s.tool = "brush" /\ sti.palette.present
                /\ s.selectedColor < Len(sti.palette.colors)
             THEN LET rgb565 == Rgb565(sti.palette.colors[s.selectedColor + 1])
                  IN ArrSet(ArrSet(old, dataIndex, rgb565 % 256),
                            dataIndex + 1, (rgb565 \div 256) % 256)
             ELSE old

\* paintPixel writing into currentImage.data itself, not into a copy.
paintPixel_InPlace(s, x, y) ==
  LET img == CurrentImage(s)
  IN [s EXCEPT !.heap[img.data] = PaintedData(s, s.heap[img.data], x, y),
               !.hasUnsavedChanges = TRUE]

paintPixel(s, x, y) ==
  LET img == CurrentImage(s)
      r == NewRef(s.heap)
  IN [s EXCEPT !.heap = (r :> PaintedData(s, s.heap[img.data], x, y)) @@ s.heap,
               !.editableSti.images[s.currentImageIndex + 1].data = r,
               !.hasUnsavedChanges = TRUE]

\* handleMouseDown whose eyedropper reads the sample at x * width + y.
handleMouseDown_PicksTransposed(s, pixelX, pixelY) ==
  LET coords == getPixelCoordinates(s, pixelX, pixelY)
  IN IF s.tool = "pan" THEN [s EXCEPT !.isDragging = TRUE]
     ELSE IF coords.ok
     THEN IF s.tool = "eyedropper"
          THEN IF s.editableSti.is_8bit
               THEN [s EXCEPT !.selectedColor =
                       ArrGet(s.heap[CurrentImage(s).data],
                              coords.x * CurrentImage(s).width + coords.y)]
               ELSE s
          ELSE paintPixel([s EXCEPT !.isDrawing = TRUE, !.strokeStarted = TRUE,
                                    !.moves = 0],
                          coords.x, coords.y)
     ELSE [s EXCEPT !.isDragging = TRUE]

handleMouseDown(s, pixelX, pixelY) ==
  LET coords == getPixelCoordinates(s, pixelX, pixelY)
  IN IF s.tool = "pan" THEN [s EXCEPT !.isDragging = TRUE]
     ELSE IF coords.ok
     THEN IF s.tool = "eyedropper"
          THEN IF s.editableSti.is_8bit
               THEN [s EXCEPT !.selectedColor =
                       ArrGet(s.heap[CurrentImage(s).data],
                              coords.y * CurrentImage(s).width + coords.x)]
               ELSE s
          ELSE paintPixel([s EXCEPT !.isDrawing = TRUE, !.strokeStarted = TRUE,
                                    !.moves = 0],
                          coords.x, coords.y)
     ELSE [s EXCEPT !.isDragging = TRUE]

handleMouseMove(s, pixelX, pixelY) ==
  LET coords == getPixelCoordinates(s, pixelX, pixelY)
  IN IF s.isDrawing
     THEN IF coords.ok
          THEN paintPixel([s EXCEPT !.moves = s.moves + 1], coords.x, coords.y)
          ELSE s
     ELSE s

\* onMouseUp and onMouseLeave of the canvas.
handleMouseUp(s) ==
  LET wasDrawing == s.isDrawing
      t == [s EXCEPT !.isDrawing = FALSE, !.isDragging = FALSE,
                     !.strokeStarted = FALSE]
  IN IF wasDrawing /\ s.strokeStarted /\ s.tool \in {"brush", "eraser"}
     THEN saveToHistory(t, "Completed " \o s.tool \o " stroke")
     ELSE t

addNewImage(s) ==
  LET t == saveToHistory(s, "Before adding new image")
      r == NewRef(t.heap)
      newImage == [width |-> NewImageWidth, height |-> NewImageHeight, data |-> r]
  IN [t EXCEPT !.heap = (r :> ArrFill(NewImageWidth * NewImageHeight, 0)) @@ t.heap,
               !.editableSti.images = Append(s.editableSti.images, newImage),
               !.currentImageIndex = Len(s.editableSti.images),
               !.hasUnsavedChanges = TRUE]

\* images.filter((_, index) => index !== currentImageIndex)
RemoveAt(imgs, i) ==
  IF i >= 0 /\ i < Len(imgs)
  THEN SubSeq(imgs, 1, i) \o SubSeq(imgs, i + 2, Len(imgs))
  ELSE imgs

\* deleteCurrentImage saving its snapshot before the check that keeps the
\* last image.
deleteCurrentImage_SnapshotFirst(s) ==
  LET t == saveToHistory(s, "Before deleting image "
                              \o ToString(s.currentImageIndex + 1))
  IN IF Len(s.editableSti.images) <= 1 THEN t
     ELSE [t EXCEPT !.editableSti.images =
                      RemoveAt(s.editableSti.images, s.currentImageIndex),
                    !.currentImageIndex = Max2(0, s.currentImageIndex - 1),
                    !.hasUnsavedChanges = TRUE]

\* deleteCurrentImage without the check that keeps the last image.
deleteCurrentImage_NoGuard(s) ==
  LET t == saveToHistory(s, "Before deleting image "
                              \o ToString(s.currentImageIndex + 1))
  IN [t EXCEPT !.editableSti.images =
                 RemoveAt(s.editableSti.images, s.currentImageIndex),
               !.currentImageIndex = Max2(0, s.currentImageIndex - 1),
               !.hasUnsavedChanges = TRUE]

deleteCurrentImage(s) ==
  IF Len(s.editableSti.images) <= 1 THEN s
  ELSE LET t == saveToHistory(s, "Before deleting image "
                                   \o ToString(s.currentImageIndex + 1))
       IN [t EXCEPT !.editableSti.images =
                      RemoveAt(s.editableSti.images, s.currentImageIndex),
                    !.currentImageIndex = Max2(0, s.currentImageIndex - 1),
                    !.hasUnsavedChanges = TRUE]

\* The buttons of the tool panel and of the palette panel.
setTool(s, t) == [s EXCEPT !.tool = t]
setSelectedColor(s, c) == [s EXCEPT !.selectedColor = c]

(* ------------------- image list: state (view mode) -------------------- *)
VARIABLES
  appState,    \* App state in view mode: currentFile, fileInfo.num_images,
               \* selectedImages, managementMode, multiSelectMode
  imageList,   \* ImageList state: imageMetadata, loading, originalOrder,
               \* stagedOrder, hasUnsavedChanges, confirmationDialog
  disk,        \* the persistence service: file -> its frames, in order
  pending,     \* asynchronous calls under way: the dialog's onConfirm, the
               \* loadImageMetadata runs, App's handleFileSelect
  requests,    \* reorder / remove requests sent to the persistence service
  listOps,     \* user actions on the list and the tool bar so far
  lastOp       \* the handler or asynchronous step that ran last

listVars == <<appState, imageList, disk, pending, requests, listOps, lastOp>>

\* The files on disk; a frame is known by a number that stands for its
\* pixels, so that a reorder can be told from the frames themselves.
Files == {"A", "B"}
InitialDisk == [f \in Files |-> IF f = "A" THEN <<1, 2, 3>> ELSE <<4, 5>>]

\* [0, 1, .., n-1]
Identity(n) == [k \in 1..n |-> k - 1]
Range(seq) == {seq[k] : k \in 1..Len(seq)}
\* order is a permutation of 0..n-1: each index exactly once.
IsPermutation(order, n) ==
  /\ Len(order) = n
  /\ \A i \in 0..(n - 1) : Cardinality({k \in 1..n : order[k] = i}) = 1

\* Array.prototype.indexOf: the 0-based position of the first match, or -1.
IndexOf(arr, v) ==
  IF v \in Range(arr)
  THEN Min({k \in 1..Len(arr) : arr[k] = v}) - 1
  ELSE -1

\* arr1.length === arr2.length && arr1.every((val, index) => val === arr2[index])
arraysEqual(arr1, arr2) ==
  /\ Len(arr1) = Len(arr2)
  /\ \A k \in 1..Len(arr1) : arr1[k] = arr2[k]

\* [newOrder[i], newOrder[j]] = [newOrder[j], newOrder[i]] on a copy, i and j
\* 0-based. A negative index names a property beside the elements: reading
\* it gives undefined, writing it leaves the elements alone.
SwapAt(arr, i, j) ==
  LET at(k) == IF k >= 0 /\ k < Len(arr) THEN arr[k + 1] ELSE JsUndefined
  IN [k \in 1..Len(arr) |->
        IF k - 1 = i THEN at(j) ELSE IF k - 1 = j THEN at(i) ELSE arr[k]]

\* selectedImages.sort((a, b) => a - b)
SortNumbers(arr) == SortSeq(arr, LAMBDA a, b : a < b)

NoConfirm ==
  [pc |-> "idle", title |-> "", order |-> <<>>, images |-> <<>>,
   file |-> "", n |-> 0, index |-> 0, orphan |-> FALSE]

\* ImageList as useState initialises it.
FreshList(mounted) ==
  LET NoDialog ==
        [isOpen |-> FALSE, title |-> "", order |-> <<>>, images |-> <<>>,
         file |-> "", n |-> 0, index |-> 0]
  IN
  [mounted |-> mounted, imageMetadata |-> <<>>, loading |-> FALSE,
   originalOrder |-> <<>>, stagedOrder |-> <<>>, hasUnsavedChanges |-> FALSE,
   lastSelectedIndex |-> JsNull, confirmationDialog |-> NoDialog]

\* The view-mode state as one record, so that handlers compose.
Ls ==
  [app |-> appState, list |-> imageList, disk |-> disk, pending |-> pending,
   requests |-> requests]

(* ------------------- image list: staging handlers --------------------- *)
\* getCurrentDisplayOrder: the staged indices that have metadata.
DisplayOrder(l) ==
  SelectSeq(l.list.stagedOrder,
            LAMBDA i : i >= 0 /\ i < Len(l.list.imageMetadata))

applyStagedReorder(l, newOrder) ==
  [l EXCEPT !.list.stagedOrder = newOrder,
            !.list.hasUnsavedChanges = ~arraysEqual(newOrder, l.list.originalOrder)]

\* handleMoveUp without the return at the first staged position.
handleMoveUp_NoBoundary(l, originalIndex) ==
  LET currentStagedIndex == IndexOf(l.list.stagedOrder, originalIndex)
  IN applyStagedReorder(l, SwapAt(l.list.stagedOrder,
                                  currentStagedIndex - 1, currentStagedIndex))

handleMoveUp(l, originalIndex) ==
  LET currentStagedIndex == IndexOf(l.list.stagedOrder, originalIndex)
  IN IF currentStagedIndex = 0 THEN l
     ELSE applyStagedReorder(l, SwapAt(l.list.stagedOrder,
                                       currentStagedIndex - 1, currentStagedIndex))

handleMoveDown(l, originalIndex) ==
  LET currentStagedIndex == IndexOf(l.list.stagedOrder, originalIndex)
  IN IF currentStagedIndex = Len(l.list.stagedOrder) - 1 THEN l
     ELSE applyStagedReorder(l, SwapAt(l.list.stagedOrder,
                                       currentStagedIndex, currentStagedIndex + 1))

\* handleCancelChanges clearing the flag but keeping the staged order.
handleCancelChanges_KeepsStaged(l) ==
  [l EXCEPT !.list.hasUnsavedChanges = FALSE]

handleCancelChanges(l) ==
  [l EXCEPT !.list.stagedOrder = l.list.originalOrder,
            !.list.hasUnsavedChanges = FALSE]

\* handleSaveChanges without the return on a clean staging.
handleSaveChanges_NoGuard(l) ==
  [l EXCEPT !.list.confirmationDialog =
     [isOpen |-> TRUE, title |-> "Save Reorder Changes",
      order |-> l.list.stagedOrder, images |-> <<>>,
      file |-> l.app.currentFile, n |-> l.app.num_images,
                       index |-> l.app.currentImageIndex]]

\* The closure of onConfirm keeps the stagedOrder, currentFile and
\* fileInfo.num_images of the render that opened the dialog.
handleSaveChanges(l) ==
  IF ~l.list.hasUnsavedChanges THEN l
  ELSE [l EXCEPT !.list.confirmationDialog =
          [isOpen |-> TRUE, title |-> "Save Reorder Changes",
           order |-> l.list.stagedOrder, images |-> <<>>,
           file |-> l.app.currentFile, n |-> l.app.num_images,
                       index |-> l.app.currentImageIndex]]

\* handleRemoveSelected asking for the first selected image alone, as a
\* call of deleteImage(filePath, imageIndex) would.
handleRemoveSelected_FirstOnly(l) ==
  IF Len(l.app.selectedImages) = 0 THEN l
  ELSE LET sorted == SortNumbers(l.app.selectedImages)
       IN [l EXCEPT !.app.selectedImages = sorted,
                    !.list.confirmationDialog =
                      [isOpen |-> TRUE, title |-> "Remove Selected Images",
                       order |-> <<>>, images |-> <<sorted[1]>>,
                       file |-> l.app.currentFile, n |-> l.app.num_images,
                       index |-> l.app.currentImageIndex]]

\* selectedImages.sort() sorts the array of App's state in place.
handleRemoveSelected(l) ==
  IF Len(l.app.selectedImages) = 0 THEN l
  ELSE LET sorted == SortNumbers(l.app.selectedImages)
       IN [l EXCEPT !.app.selectedImages = sorted,
                    !.list.confirmationDialog =
                      [isOpen |-> TRUE, title |-> "Remove Selected Images",
                       order |-> <<>>, images |-> sorted,
                       file |-> l.app.currentFile, n |-> l.app.num_images,
                       index |-> l.app.currentImageIndex]]

(* --------------------- image list: App handlers ----------------------- *)
handleImageToggleSelect(l, i) ==
  [l EXCEPT !.app.selectedImages =
     IF i \in Range(l.app.selectedImages)
     THEN SelectSeq(l.app.selectedImages, LAMBDA v : v # i)
     ELSE Append(l.app.selectedImages, i)]

handleClearSelection(l) == [l EXCEPT !.app.selectedImages = <<>>]

handleToggleManagement(l) ==
  LET newMode == ~l.app.managementMode
  IN [l EXCEPT !.app.managementMode = newMode,
               !.app.multiSelectMode = IF newMode THEN l.app.multiSelectMode ELSE FALSE,
               !.app.selectedImages = IF newMode THEN l.app.selectedImages ELSE <<>>]

handleToggleMultiSelect(l) ==
  [l EXCEPT !.app.multiSelectMode = ~l.app.multiSelectMode,
            !.app.selectedImages =
              IF ~l.app.multiSelectMode THEN l.app.selectedImages ELSE <<>>]

\* handleImageSelect awaits handleImageIndexChange: up to its first await.
\* The request keeps the currentFile of the render that made it.
handleImageIndexChange(l, newIndex) ==
  IF newIndex = l.app.currentImageIndex THEN l
  ELSE IF newIndex < 0 \/ newIndex >= l.app.num_images THEN l
  ELSE [l EXCEPT !.app.loading = TRUE,
                 !.pending.images = Append(l.pending.images,
                                           [file |-> l.app.currentFile,
                                            index |-> newIndex])]

handleImageSelect(l, idx) == handleImageIndexChange(l, idx)

(* ------------------ image list: selection handlers -------------------- *)
setLastSelectedIndex(l, v) == [l EXCEPT !.list.lastSelectedIndex = v]

\* indices.forEach(index => { if (!selectedImages.includes(index))
\* onImageToggleSelect(index) }): the test reads the selection of the render,
\* each call toggles in the state as it then is.
RECURSIVE ToggleUnselected(_, _, _)
ToggleUnselected(l, indices, selectedImages) ==
  IF indices = <<>> THEN l
  ELSE ToggleUnselected(IF Head(indices) \in Range(selectedImages) THEN l
                        ELSE handleImageToggleSelect(l, Head(indices)),
                        Tail(indices), selectedImages)

\* handleRangeSelection ordering the span by original index, not by
\* position in the displayed order.
handleRangeSelection_ByIndex(l, endIndex) ==
  IF l.list.lastSelectedIndex = JsNull THEN l
  ELSE LET currentDisplayOrder == DisplayOrder(l)
           startDisplayIndex == IndexOf(currentDisplayOrder, l.list.lastSelectedIndex)
           endDisplayIndex == IndexOf(currentDisplayOrder, endIndex)
           min == Min({l.list.lastSelectedIndex, endIndex})
           max == Max2(l.list.lastSelectedIndex, endIndex)
           rangeIndices == [k \in 1..(max - min + 1) |-> min + k - 1]
       IN IF startDisplayIndex = -1 \/ endDisplayIndex = -1 THEN l
          ELSE setLastSelectedIndex(
                 ToggleUnselected(l, rangeIndices, l.app.selectedImages), endIndex)

handleRangeSelection(l, endIndex) ==
  IF l.list.lastSelectedIndex = JsNull THEN l
  ELSE LET currentDisplayOrder == DisplayOrder(l)
           startDisplayIndex == IndexOf(currentDisplayOrder, l.list.lastSelectedIndex)
           endDisplayIndex == IndexOf(currentDisplayOrder, endIndex)
           min == Min({startDisplayIndex, endDisplayIndex})
           max == Max2(startDisplayIndex, endDisplayIndex)
           rangeIndices == SubSeq(currentDisplayOrder, min + 1, max + 1)
       IN IF startDisplayIndex = -1 \/ endDisplayIndex = -1 THEN l
          ELSE setLastSelectedIndex(
                 ToggleUnselected(l, rangeIndices, l.app.selectedImages), endIndex)

handleImageClick(l, idx, ctrlKey, shiftKey) ==
  IF l.app.multiSelectMode \/ ctrlKey
  THEN IF shiftKey /\ l.list.lastSelectedIndex # JsNull /\ l.app.multiSelectMode
       THEN handleRangeSelection(l, idx)
       ELSE setLastSelectedIndex(handleImageToggleSelect(l, idx), idx)
  ELSE setLastSelectedIndex(handleImageSelect(l, idx), idx)

\* onClick of an item of the list.
itemClick(l, idx, ctrlKey, shiftKey) ==
  IF ~l.app.managementMode THEN handleImageClick(l, idx, ctrlKey, shiftKey)
  ELSE IF l.app.multiSelectMode THEN handleImageSelect(l, idx)
  ELSE setLastSelectedIndex(handleImageSelect(l, idx), idx)

\* onClick of the selection checkbox of an item.
checkboxClick(l, idx, shiftKey) ==
  IF shiftKey /\ l.list.lastSelectedIndex # JsNull
  THEN handleRangeSelection(l, idx)
  ELSE setLastSelectedIndex(handleImageToggleSelect(l, idx), idx)

(* ------------------- the persistence service (spec) ------------------- *)
\* reorderFrames: position k of the new order holds the frame that was at
\* index newOrder[k]; an array that is no permutation is rejected.
reorderFrames(frames, newOrder) ==
  IF IsPermutation(newOrder, Len(frames))
  THEN [ok |-> TRUE, frames |-> [k \in 1..Len(frames) |-> frames[newOrder[k] + 1]]]
  ELSE [ok |-> FALSE, frames |-> frames]

\* deleteFrames: rejected when the indices cover every frame (or name no
\* frame of the file); otherwise the named frames go in one step.
deleteFrames(frames, indices) ==
  LET named == Range(indices)
      all == 0..(Len(frames) - 1)
      kept == SelectSeq(Identity(Len(frames)), LAMBDA i : i \notin named)
  IN IF named = {} \/ all \subseteq named \/ ~(named \subseteq all)
     THEN [ok |-> FALSE, frames |-> frames]
     ELSE [ok |-> TRUE, frames |-> [k \in 1..Len(kept) |-> frames[kept[k] + 1]]]

(* ------------------ image list: effects and async steps --------------- *)
\* loadImageMetadata up to its first await.
startLoad(l, file, n, awaited) ==
  IF file = "" \/ n = 0 THEN l
  ELSE [l EXCEPT !.list.loading = TRUE,
                 !.pending.loads = Append(l.pending.loads,
                                          [file |-> file, n |-> n, awaited |-> awaited])]

\* What React does after the handler that took l0 to l: mounts or unmounts
\* ImageList (App renders it for num_images > 1 only) and runs its effects.
Effects(l0, l) ==
  LET should == l.app.num_images > 1
      l1 == IF l.list.mounted /\ ~should
            THEN [l EXCEPT !.list = FreshList(FALSE),
                           !.pending.loads = <<>>,
                           !.pending.confirm =
                             IF l.pending.confirm.pc \in {"call", "updating"}
                             THEN [l.pending.confirm EXCEPT !.orphan = TRUE]
                             ELSE NoConfirm]
            ELSE IF ~l.list.mounted /\ should
            THEN startLoad([l EXCEPT !.list = FreshList(TRUE)],
                           l.app.currentFile, l.app.num_images, FALSE)
            ELSE IF l.list.mounted
                    /\ (l.app.currentFile # l0.app.currentFile
                        \/ l.app.num_images # l0.app.num_images)
            THEN startLoad(l, l.app.currentFile, l.app.num_images, FALSE)
            ELSE l
  IN IF l1.list.mounted /\ ~l1.app.managementMode
     THEN handleClearSelection(
            IF l1.list.hasUnsavedChanges THEN handleCancelChanges(l1) ELSE l1)
     ELSE l1

\* handleConfirm of the dialog: onConfirm up to its first await.
dialogConfirm(l) ==
  LET d == l.list.confirmationDialog
      reorder == d.title = "Save Reorder Changes"
  IN [l EXCEPT !.list.loading = TRUE,
               !.pending.confirm =
                 [pc |-> "call", title |-> d.title, order |-> d.order,
                  images |-> d.images, file |-> d.file, n |-> d.n,
                  index |-> d.index, orphan |-> FALSE],
               !.requests = Append(l.requests,
                 [op |-> IF reorder THEN "reorder" ELSE "remove",
                  file |-> d.file,
                  arg |-> IF reorder THEN d.order ELSE d.images])]

\* reorderImages / removeImages returns or throws; on success onConfirm goes
\* on to onFileUpdated (App's handleFileUpdated) and waits for it.
confirmCallDone(l, ok) ==
  \* setState of a component that has been unmounted changes nothing.
  LET SetList(l0, c, new) == IF c.orphan THEN l0 ELSE [l0 EXCEPT !.list = new]
      c == l.pending.confirm
      reorder == c.title = "Save Reorder Changes"
      result == IF reorder THEN reorderFrames(l.disk[c.file], c.order)
                ELSE deleteFrames(l.disk[c.file], c.images)
  IN IF ok /\ result.ok
     THEN LET l1 == [l EXCEPT !.disk[c.file] = result.frames,
                              !.pending.confirm.pc = "updating",
                              !.app.loading = TRUE]
          IN IF reorder
             THEN SetList(l1, c, [l1.list EXCEPT !.originalOrder = c.order,
                                                 !.hasUnsavedChanges = FALSE])
             ELSE handleClearSelection(l1)
     ELSE SetList([l EXCEPT !.pending.confirm = NoConfirm], c,
                  [l.list EXCEPT !.loading = FALSE])

RemoveLoad(loads, k) == SubSeq(loads, 1, k - 1) \o SubSeq(loads, k + 1, Len(loads))

(* --------------- App: view mode, edit mode, backend calls -------------- *)
VARIABLES
  state,     \* App's useState record, with the editor's hasUnsavedChanges
  calls,     \* runs of async handlers that wait for the backend
  service,   \* the backend: the files on disk and its cache of decoded files
  trace      \* what has happened so far: intents, last event, decodes

appVars == <<state, calls, service, trace>>

\* App and the backend as one record, so that handlers compose.
Ap == [state |-> state, calls |-> calls, service |-> service, trace |-> trace]

\* null of fileInfo, imageData and editableSti.
NoInfo == [file |-> "", num_images |-> 0]
NoImage == [file |-> "", index |-> JsUndefined, rev |-> 0]
NoEditable == [file_path |-> "", num_images |-> 0, rev |-> 0]

\* App showing file f as handleFileSelect leaves it, nothing under way.
Opened(f) ==
  \* The last step taken: an intent of the user (pc "") or the return (ok) or
  \* the failure of the call a handler awaited at pc.
  LET NoEvent == [name |-> "", pc |-> "", ok |-> TRUE]
  IN
  [state |-> [currentFile |-> f,
              fileInfo |-> [file |-> f, num_images |-> Len(InitialDisk[f])],
              currentImageIndex |-> 0,
              imageData |-> [file |-> f, index |-> 0, rev |-> 0],
              metadata |-> f, loading |-> FALSE, error |-> "",
              isEditMode |-> FALSE, editableSti |-> NoEditable,
              hasUnsavedChanges |-> FALSE, editor |-> 0],
   calls |-> <<>>,
   service |-> [files |-> [g \in Files |->
                             [num_images |-> Len(InitialDisk[g]), rev |-> 0]],
                stale |-> [g \in Files |-> FALSE]],
   trace |-> [ops |-> 0, lastEvent |-> NoEvent, lastSelected |-> f,
              staleDecode |-> FALSE, failed |-> FALSE, editors |-> 0,
              revs |-> 0]]

AppIs(a) ==
  /\ state = a.state /\ calls = a.calls
  /\ service = a.service /\ trace = a.trace

\* A run of an async handler at its first await. file and index are the
\* currentFile and currentImageIndex its closure holds, sti the collection.
NewCall(handler, pc, file, idx, sti, editor) ==
  [handler |-> handler, pc |-> pc, file |-> file, index |-> idx,
   info |-> NoInfo, image |-> NoImage, sti |-> sti, editor |-> editor]

\* openStiFile, getStiImage or getStiMetadata of file f is sent: the backend
\* answers from its cache of f if it holds one.
Decode(a, f) ==
  [a EXCEPT !.trace.staleDecode = a.trace.staleDecode \/ a.service.stale[f]]

\* Run k has ended.
Finish(a, k) ==
  [a EXCEPT !.calls = SubSeq(a.calls, 1, k - 1)
                        \o SubSeq(a.calls, k + 1, Len(a.calls))]

\* What openStiFile and getStiImage answer.
FileInfoOf(a, f) == [file |-> f, num_images |-> a.service.files[f].num_images]
ImageOf(a, f, i) == [file |-> f, index |-> i, rev |-> a.service.files[f].rev]
HasImage(a, f, i) == i >= 0 /\ i < a.service.files[f].num_images

\* ImageEditor is mounted when isEditMode becomes true with a collection and
\* unmounted when it becomes false: a new mount is a new instance, with
\* hasUnsavedChanges false.
LeaveEdit(a) ==
  [a EXCEPT !.state.isEditMode = FALSE, !.state.editableSti = NoEditable,
            !.state.hasUnsavedChanges = FALSE, !.state.editor = 0]

handleFileSelect(a, filePath) ==
  IF filePath = a.state.currentFile THEN a
  ELSE IF a.state.isEditMode THEN a
  ELSE Decode([a EXCEPT !.state.loading = TRUE, !.state.error = "",
                        !.calls = Append(a.calls,
                          NewCall("handleFileSelect", "openStiFile", filePath,
                                  0, NoEditable, 0)),
                        !.trace.lastSelected = filePath],
              filePath)

changeImageIndex(a, newIndex) ==
  IF \/ a.state.currentFile = "" \/ a.state.fileInfo = NoInfo
     \/ newIndex = a.state.currentImageIndex
  THEN a
  ELSE IF newIndex < 0 \/ newIndex >= a.state.fileInfo.num_images THEN a
  ELSE Decode([a EXCEPT !.state.loading = TRUE,
                        !.calls = Append(a.calls,
                          NewCall("handleImageIndexChange", "getStiImage",
                                  a.state.currentFile, newIndex, NoEditable, 0))],
              a.state.currentFile)

handleEnterEditMode(a) ==
  IF a.state.currentFile = "" THEN a
  ELSE [a EXCEPT !.state.loading = TRUE, !.state.error = "",
                 !.calls = Append(a.calls,
                   NewCall("handleEnterEditMode", "enterEditMode",
                           a.state.currentFile, 0, NoEditable, 0))]

handleExitEditMode(a) == LeaveEdit(a)

handleEditImageChange(a, i) == [a EXCEPT !.state.currentImageIndex = i]

\* A stroke in the editor: onUpdate(updatedSti) with samples no file holds
\* yet, and setHasUnsavedChanges(true).
paintStroke(a) ==
  [a EXCEPT !.state.editableSti.rev = a.trace.revs + 1,
            !.state.hasUnsavedChanges = TRUE,
            !.trace.revs = a.trace.revs + 1]

\* ImageEditor's handleSave up to its await; onSave is the handleSaveEdit of
\* the render the button was clicked in.
handleSave(a) ==
  [a EXCEPT !.calls = Append(a.calls,
              NewCall("handleSave", "saveStiFile", a.state.currentFile,
                      a.state.currentImageIndex, a.state.editableSti,
                      a.state.editor))]

\* The backend has written a collection to file f: what it cached of f is
\* out of date until the cache is cleared.
Written(a, f, n, rev) ==
  [a EXCEPT !.service.files[f] = [num_images |-> n, rev |-> rev],
            !.service.stale[f] = TRUE]

\* App's handleSaveEdit up to its first await.
handleSaveEdit(a, k) ==
  LET c == a.calls[k]
  IN IF c.file = "" THEN Finish(a, k)
     ELSE [a EXCEPT !.state.loading = TRUE, !.state.error = "",
                    !.calls[k].handler = "handleSaveEdit",
                    !.calls[k].pc = "clearStiCache"]

\* clearStiCache, the 200 ms delay, openStiFile, getStiImage and
\* getStiMetadata of handleSaveEdit (exits = TRUE) and of handleFileUpdated.
Reloaded(a, k, ok, exits) ==
  LET c == a.calls[k]
      failed == [a EXCEPT !.state.loading = FALSE,
                          !.state.error = IF exits
                                          THEN "Failed to reload after save"
                                          ELSE "Failed to refresh file"]
      done == [a EXCEPT !.state.fileInfo = c.info,
                        !.state.currentImageIndex = c.index,
                        !.state.imageData = c.image,
                        !.state.metadata = c.file,
                        !.state.loading = FALSE]
  IN IF ~ok \/ (c.pc = "getStiImage" /\ ~HasImage(a, c.file, c.index))
     THEN Finish(IF exits THEN LeaveEdit(failed) ELSE failed, k)
     ELSE IF c.pc = "clearStiCache"
     THEN [a EXCEPT !.service.stale = [g \in Files |-> FALSE],
                    !.calls[k].pc = "setTimeout"]
     ELSE IF c.pc = "setTimeout"
     THEN Decode([a EXCEPT !.calls[k].pc = "openStiFile"], c.file)
     ELSE IF c.pc = "openStiFile"
     THEN LET info == FileInfoOf(a, c.file)
          IN Decode([a EXCEPT !.calls[k].info = info,
                              !.calls[k].index =
                                 Min({c.index, info.num_images - 1}),
                              !.calls[k].pc = "getStiImage"], c.file)
     ELSE IF c.pc = "getStiImage"
     THEN Decode([a EXCEPT !.calls[k].image = ImageOf(a, c.file, c.index),
                           !.calls[k].pc = "getStiMetadata"], c.file)
     ELSE Finish(IF exits
                 THEN LeaveEdit([done EXCEPT !.state.currentFile = c.file])
                 ELSE done, k)

\* A reorder or a removal confirmed in the image list, up to the await of
\* its backend call; onFileUpdated is the handleFileUpdated of that render.
listCommit(a) ==
  [a EXCEPT !.calls = Append(a.calls,
              NewCall("onConfirm", "reorderImages", a.state.currentFile,
                      a.state.currentImageIndex, NoEditable, 0))]

\* App's handleFileUpdated up to its first await.
handleFileUpdated(a, k) ==
  LET c == a.calls[k]
  IN IF c.file = "" THEN Finish(a, k)
     ELSE [a EXCEPT !.state.loading = TRUE, !.state.error = "",
                    !.calls[k].handler = "handleFileUpdated",
                    !.calls[k].pc = "clearStiCache"]

\* The awaited call of run k returns (ok) or throws.
Resumed(a, k, ok) ==
  LET fileUpdatedResumed == Reloaded(a, k, ok, FALSE)
  \* reorderImages returns and onConfirm awaits onFileUpdated(), or it throws.
      commitResumed ==
        LET c == a.calls[k]
            f == a.service.files[c.file]
        IN IF ok
           THEN handleFileUpdated(
                  Written([a EXCEPT !.trace.revs = a.trace.revs + 1],
                          c.file, f.num_images, a.trace.revs + 1), k)
           ELSE Finish(a, k)
      saveEditResumed == Reloaded(a, k, ok, TRUE)
  \* saveStiFile returns: setHasUnsavedChanges(false) on the editor that sent
  \* it, if it is still mounted, and onSave(); or it throws: console.error.
      saveResumed ==
        LET c == a.calls[k]
            w == Written(a, c.sti.file_path, c.sti.num_images, c.sti.rev)
        IN IF ok
           THEN handleSaveEdit(
                  IF a.state.editor = c.editor
                  THEN [w EXCEPT !.state.hasUnsavedChanges = FALSE] ELSE w, k)
           ELSE Finish(a, k)
      enterEditResumed ==
        LET c == a.calls[k]
            f == a.service.files[c.file]
            mounts == ~a.state.isEditMode
        IN IF ok
           THEN Finish([a EXCEPT
                  !.state.isEditMode = TRUE,
                  !.state.editableSti = [file_path |-> c.file,
                                         num_images |-> f.num_images, rev |-> f.rev],
                  !.state.loading = FALSE,
                  !.state.hasUnsavedChanges =
                     IF mounts THEN FALSE ELSE a.state.hasUnsavedChanges,
                  !.state.editor =
                     IF mounts THEN a.trace.editors + 1 ELSE a.state.editor,
                  !.trace.editors =
                     IF mounts THEN a.trace.editors + 1 ELSE a.trace.editors], k)
           ELSE Finish([a EXCEPT !.state.error = "Failed to enter edit mode",
                                 !.state.loading = FALSE], k)
      imageIndexResumed ==
        LET c == a.calls[k]
        IN IF ok /\ HasImage(a, c.file, c.index)
           THEN Finish([a EXCEPT !.state.currentImageIndex = c.index,
                                 !.state.imageData = ImageOf(a, c.file, c.index),
                                 !.state.loading = FALSE], k)
           ELSE Finish([a EXCEPT !.state.error = "Failed to load image",
                                 !.state.loading = FALSE], k)
  \* handleFileSelect goes on after an await: the call returned (ok) or threw.
      fileSelectResumed ==
        LET c == a.calls[k]
        IN IF ~ok \/ (c.pc = "getStiImage" /\ ~HasImage(a, c.file, 0))
           THEN Finish([a EXCEPT !.state.error = "Unknown error",
                                 !.state.loading = FALSE], k)
           ELSE IF c.pc = "openStiFile"
           THEN Decode([a EXCEPT !.calls[k].info = FileInfoOf(a, c.file),
                                 !.calls[k].pc = "getStiImage"], c.file)
           ELSE IF c.pc = "getStiImage"
           THEN Decode([a EXCEPT !.calls[k].image = ImageOf(a, c.file, 0),
                                 !.calls[k].pc = "getStiMetadata"], c.file)
           ELSE Finish(LeaveEdit([a EXCEPT !.state.currentFile = c.file,
                                           !.state.fileInfo = c.info,
                                           !.state.currentImageIndex = 0,
                                           !.state.imageData = c.image,
                                           !.state.metadata = c.file,
                                           !.state.loading = FALSE]), k)
      h == a.calls[k].handler
  IN IF h = "handleFileSelect" THEN fileSelectResumed
     ELSE IF h = "handleImageIndexChange" THEN imageIndexResumed
     ELSE IF h = "handleEnterEditMode" THEN enterEditResumed
     ELSE IF h = "handleSave" THEN saveResumed
     ELSE IF h = "handleSaveEdit" THEN saveEditResumed
     ELSE IF h = "onConfirm" THEN commitResumed
     ELSE fileUpdatedResumed

vars == <<editorVars, listVars, appVars>>

(* --------------------------- specification ---------------------------- *)

\* The editor mounted on a file of n frames in mode m, frame cur shown.
EditorMounted(m, n, cur, b) ==
  \* The file as enterEditMode returns it: frame j has sample 0 holding j,
  \* the rest 0; one byte per pixel in indexed mode, two in packed mode.
  \* The history of the mounted editor holds one entry, a copy of it.
  LET LoadedSti(is8, pal, count) ==
        [is_8bit |-> is8, palette |-> pal,
         images |-> [j \in 1..count |->
                       [width |-> LoadedWidth, height |-> LoadedHeight,
                        data |-> j]]]
      LoadedData(is8, j) ==
        ArrSet(ArrFill((IF is8 THEN 1 ELSE 2) * LoadedWidth * LoadedHeight, 0), 0, j)
      LoadedHeap(is8, count) == [j \in 1..count |-> LoadedData(is8, j)]
      sti == LoadedSti(m[1], m[2], n)
      c == DeepCopy(LoadedHeap(m[1], n), sti)
      s0 == Collect([heap |-> c.heap, editableSti |-> sti,
                      history |-> <<[editableSti |-> c.sti,
                                     currentImageIndex |-> cur,
                                     actionDescription |-> "Initial state"]>>])
  IN /\ heap = s0.heap
     /\ editableSti = s0.editableSti
     /\ currentImageIndex = cur
     /\ history = s0.history
     /\ index = 0
     /\ isHistoryAction = FALSE
     /\ timers = 0
     /\ tool = "brush"
     /\ selectedColor = 0
     /\ isDrawing = FALSE
     /\ isDragging = FALSE
     /\ strokeStarted = FALSE
     /\ hasUnsavedChanges = FALSE
     /\ moves = 0
     /\ snapshots = 0
     /\ edits = 0
     /\ budget = b
     /\ loaded = StiVal(LoadedHeap(m[1], n), sti)

\* In edit mode App renders the editor alone: the image list is not mounted
\* and nothing of the view mode moves.
ListIdle ==
  /\ appState = [currentFile |-> "A", num_images |-> 0,
                 selectedImages |-> <<>>, managementMode |-> FALSE,
                 multiSelectMode |-> FALSE, loading |-> FALSE,
                 currentImageIndex |-> 0]
  /\ imageList = FreshList(FALSE)
  /\ disk = InitialDisk
  /\ pending = [confirm |-> NoConfirm, loads |-> <<>>, select |-> "",
                images |-> <<>>]
  /\ requests = <<>>
  /\ listOps = 0
  /\ lastOp = ""

\* The App model at rest, for the sessions that do not move it.
AppIdle == AppIs(Opened("A"))

Mounted(m, n, cur, b) ==
  LET ViewIdle == ListIdle /\ AppIdle
  IN EditorMounted(m, n, cur, b) /\ ViewIdle

Init ==
  LET Modes ==
        LET NoPalette == [present |-> FALSE, colors |-> <<>>]
        IN {<<TRUE, SomePalette>>, <<FALSE, SomePalette>>, <<FALSE, NoPalette>>}
  IN
  \E m \in Modes, n \in 1..MaxLoadedFrames :
    \E cur \in 0..(n - 1) : Mounted(m, n, cur, MaxEdits)

\* The state a handler leaves, installed; an edit that begins is counted.
Becomes(s0, op) ==
  \E s \in {Collect(s0)} :
     /\ heap' = s.heap
     /\ editableSti' = s.editableSti
     /\ currentImageIndex' = s.currentImageIndex
     /\ history' = s.history
     /\ index' = s.index
     /\ isHistoryAction' = s.isHistoryAction
     /\ timers' = s.timers
     /\ tool' = s.tool
     /\ selectedColor' = s.selectedColor
     /\ isDrawing' = s.isDrawing
     /\ isDragging' = s.isDragging
     /\ strokeStarted' = s.strokeStarted
     /\ hasUnsavedChanges' = s.hasUnsavedChanges
     /\ moves' = s.moves
     /\ snapshots' = s.snapshots
     /\ edits' = IF \/ op = "down" /\ s.isDrawing
                    \/ op = "add"
                    \/ op = "delete" /\ Len(editableSti.images) > 1
                 THEN edits + 1 ELSE edits
     /\ budget' = budget
     /\ loaded' = loaded
     /\ UNCHANGED <<listVars, appVars>>

\* Pointer positions tried on the canvas: two pixels of the image and one
\* position beside it.
Targets(s) ==
  LET img == CurrentImage(s)
  IN {<<0, 0>>, <<img.width - 1, img.height - 1>>, <<img.width, 0>>}

\* The pointer is over the canvas with a button held: nothing outside the
\* canvas can be clicked until onMouseUp / onMouseLeave has run.
PointerFree == ~isDrawing /\ ~isDragging
\* One more edit may begin.
Room == edits < budget

\* A press of the brush or the eraser begins an edit; the eyedropper and the
\* pan tool begin none.
MouseDown ==
  /\ PointerFree /\ HasCurrentImage(St)
  /\ Room \/ tool \notin StrokeTools
  /\ \E p \in Targets(St) : Becomes(handleMouseDown(St, p[1], p[2]), "down")

MouseMove ==
  /\ isDrawing /\ HasCurrentImage(St) /\ moves < MaxMoves
  /\ \E p \in Targets(St) : Becomes(handleMouseMove(St, p[1], p[2]), "move")

MouseUp ==
  /\ isDrawing \/ isDragging
  /\ Becomes(handleMouseUp(St), "up")

\* Ctrl/Cmd+Z or the Undo button; the keyboard works during a stroke too.
Undo ==
  /\ index > 0 => timers < MaxTimers
  /\ Becomes(handleUndo(St), "undo")

Redo ==
  /\ index < Len(history) - 1 => timers < MaxTimers
  /\ Becomes(handleRedo(St), "redo")

HistoryTimeout ==
  \* The callback of setTimeout(() => setIsHistoryAction(false), 0).
  LET historyTimeout(s) == [s EXCEPT !.isHistoryAction = FALSE, !.timers = s.timers - 1]
  IN
  /\ timers > 0
  /\ Becomes(historyTimeout(St), "timeout")

AddNewImage ==
  /\ PointerFree /\ Room /\ Len(editableSti.images) < MaxFrames
  /\ Becomes(addNewImage(St), "add")

DeleteCurrentImage ==
  /\ PointerFree /\ Room
  /\ Becomes(deleteCurrentImage(St), "delete")

SelectImage ==
  \* A click on a frame of the editor's image list.
  LET selectImage(s, i) == [s EXCEPT !.currentImageIndex = i]
  IN
  /\ PointerFree
  /\ \E i \in 0..(Len(editableSti.images) - 1) :
       i # currentImageIndex /\ Becomes(selectImage(St, i), "select")

SetTool ==
  /\ PointerFree
  /\ \E t \in StrokeTools : t # tool /\ Becomes(setTool(St, t), "tool")

SetSelectedColor ==
  /\ PointerFree /\ editableSti.is_8bit /\ editableSti.palette.present
  /\ \E c \in 0..(Len(editableSti.palette.colors) - 1) :
       c # selectedColor /\ Becomes(setSelectedColor(St, c), "color")

Next ==
  \/ MouseDown \/ MouseMove \/ MouseUp
  \/ Undo \/ Redo \/ HistoryTimeout
  \/ AddNewImage \/ DeleteCurrentImage
  \/ SelectImage \/ SetTool \/ SetSelectedColor

\* An editing session on any loaded file.
Spec == Init /\ [][Next]_vars

\* A longer session on a one-frame indexed file.
InitDeep == Mounted(<<TRUE, SomePalette>>, 1, 0, MaxDeepEdits)
SpecDeep == InitDeep /\ [][Next]_vars

\* A session long enough to fill the history: a frame is added and deleted
\* again, over and over, and undo/redo are tried once the log is nearly full.
InitLong == Mounted(<<TRUE, SomePalette>>, 1, 0, HistoryLimit + LongExtra)

AddLong == Len(editableSti.images) = 1 /\ AddNewImage
DeleteLong == Len(editableSti.images) > 1 /\ DeleteCurrentImage
UndoLong == Len(history) >= HistoryLimit - 1 /\ Undo
RedoLong == Len(history) >= HistoryLimit - 1 /\ Redo

NextLong == AddLong \/ DeleteLong \/ UndoLong \/ RedoLong \/ HistoryTimeout

SpecLong == InitLong /\ [][NextLong]_vars

\* A drawing session on an indexed file in which the eyedropper and the pan
\* tool are picked in the tool panel as well: strokes, picked colours and
\* frames shown, without undo and without added or deleted frames.
InitTools ==
  \E n \in 1..MaxLoadedFrames : Mounted(<<TRUE, SomePalette>>, n, 0, MaxToolEdits)

PickTool ==
  /\ PointerFree
  /\ \E t \in Tools \ StrokeTools : t # tool /\ Becomes(setTool(St, t), "tool")

NextTools ==
  \/ MouseDown \/ MouseMove \/ MouseUp
  \/ SelectImage \/ SetTool \/ PickTool \/ SetSelectedColor

SpecTools == InitTools /\ [][NextTools]_vars

(* --------------------- image list: specification ---------------------- *)

\* The state a handler or an asynchronous step leaves, after React has run
\* the effects; a user action is counted.
ListBecomes(l0, op, counted) ==
  \E l \in {Effects(Ls, l0)} :
     /\ appState' = l.app
     /\ imageList' = l.list
     /\ disk' = l.disk
     /\ pending' = l.pending
     /\ requests' = l.requests
     /\ listOps' = IF counted THEN listOps + 1 ELSE listOps
     /\ lastOp' = op
     /\ UNCHANGED <<editorVars, appVars>>

\* The confirmation dialog is on screen, over the whole window.
DialogShown == imageList.mounted /\ ~imageList.loading
               /\ imageList.confirmationDialog.isOpen
\* The list is on screen and can be clicked.
ListFree == imageList.mounted /\ ~imageList.loading
            /\ ~imageList.confirmationDialog.isOpen
ListRoom == listOps < MaxListOps

MoveUp ==
  /\ ListFree /\ ListRoom
  /\ appState.managementMode /\ ~appState.multiSelectMode
  /\ \E k \in 2..Len(DisplayOrder(Ls)) :
       ListBecomes(handleMoveUp(Ls, DisplayOrder(Ls)[k]), "MoveUp", TRUE)

MoveDown ==
  /\ ListFree /\ ListRoom
  /\ appState.managementMode /\ ~appState.multiSelectMode
  /\ \E k \in 1..(Len(DisplayOrder(Ls)) - 1) :
       ListBecomes(handleMoveDown(Ls, DisplayOrder(Ls)[k]), "MoveDown", TRUE)

SaveChanges ==
  /\ ListFree /\ ListRoom
  /\ appState.managementMode /\ imageList.hasUnsavedChanges
  /\ ListBecomes(handleSaveChanges(Ls), "SaveChanges", TRUE)

CancelChanges ==
  /\ ListFree /\ ListRoom
  /\ appState.managementMode /\ imageList.hasUnsavedChanges
  /\ ListBecomes(handleCancelChanges(Ls), "CancelChanges", TRUE)

\* The checkbox of an item in multi-select mode.
ToggleSelect ==
  /\ ListFree /\ ListRoom
  /\ appState.managementMode /\ appState.multiSelectMode
  /\ \E k \in 1..Len(DisplayOrder(Ls)) :
       ListBecomes(checkboxClick(Ls, DisplayOrder(Ls)[k], FALSE), "ToggleSelect", TRUE)

\* A shift-click on the checkbox of an item.
RangeSelect ==
  /\ ListFree /\ ListRoom
  /\ appState.managementMode /\ appState.multiSelectMode
  /\ \E k \in 1..Len(DisplayOrder(Ls)) :
       ListBecomes(checkboxClick(Ls, DisplayOrder(Ls)[k], TRUE), "RangeSelect", TRUE)

\* The All and None buttons of the selection controls.
SelectAll ==
  LET handleSelectAll(l) ==
        ToggleUnselected(l, Identity(Len(l.list.imageMetadata)), l.app.selectedImages)
  IN
  /\ ListFree /\ ListRoom
  /\ appState.managementMode /\ appState.multiSelectMode
  /\ Len(appState.selectedImages) # Len(imageList.imageMetadata)
  /\ ListBecomes(handleSelectAll(Ls), "SelectAll", TRUE)

DeselectAll ==
  LET handleDeselectAll(l) == setLastSelectedIndex(handleClearSelection(l), JsNull)
  IN
  /\ ListFree /\ ListRoom
  /\ appState.managementMode /\ appState.multiSelectMode
  /\ Len(appState.selectedImages) # 0
  /\ ListBecomes(handleDeselectAll(Ls), "DeselectAll", TRUE)

\* A click on an item of the list, with or without Ctrl and Shift held.
ItemClick ==
  /\ ListFree /\ ListRoom
  /\ Len(pending.images) < MaxLoads
  /\ \E k \in 1..Len(DisplayOrder(Ls)), ctrlKey \in BOOLEAN, shiftKey \in BOOLEAN :
       ListBecomes(itemClick(Ls, DisplayOrder(Ls)[k], ctrlKey, shiftKey), "ItemClick", TRUE)

ImageDone ==
  \* Request k of handleImageIndexChange is answered.
  LET imageDone(l, k, ok) ==
        LET req == l.pending.images[k]
            l1 == [l EXCEPT !.pending.images = RemoveLoad(l.pending.images, k),
                            !.app.loading = FALSE]
        IN IF ok /\ req.index < Len(l.disk[req.file])
           THEN [l1 EXCEPT !.app.currentImageIndex = req.index]
           ELSE l1
  IN
  \E k \in 1..Len(pending.images), ok \in BOOLEAN :
    ListBecomes(imageDone(Ls, k, ok), "ImageDone", FALSE)

RemoveSelected ==
  /\ ListFree /\ ListRoom
  /\ appState.managementMode
  /\ Len(appState.selectedImages) > 0
  /\ ~(Len(appState.selectedImages) >= Len(imageList.imageMetadata))
  /\ ListBecomes(handleRemoveSelected(Ls), "RemoveSelected", TRUE)

DialogCancel ==
  \* onCancel of the dialog.
  LET dialogCancel(l) == [l EXCEPT !.list.confirmationDialog.isOpen = FALSE]
  IN
  /\ DialogShown
  /\ ListBecomes(dialogCancel(Ls), "DialogCancel", FALSE)

DialogConfirm ==
  /\ DialogShown /\ ListRoom /\ pending.confirm.pc = "idle"
  /\ ListBecomes(dialogConfirm(Ls), "DialogConfirm", TRUE)

ConfirmCallDone ==
  /\ pending.confirm.pc = "call"
  /\ \E ok \in BOOLEAN : ListBecomes(confirmCallDone(Ls, ok), "ConfirmCallDone", FALSE)

ConfirmUpdatedDone ==
  \* handleFileUpdated returns (it catches its own errors), and onConfirm runs
  \* to its next await (reorder: loadImageMetadata) or to its end (remove).
  LET confirmUpdatedDone(l, ok) ==
        LET c == l.pending.confirm
            reorder == c.title = "Save Reorder Changes"
            l1 == [l EXCEPT !.app.loading = FALSE,
                            !.app.num_images = IF ok THEN Len(l.disk[c.file])
                                               ELSE l.app.num_images,
                            !.app.currentImageIndex =
                              IF ok THEN Min({c.index, Len(l.disk[c.file]) - 1})
                              ELSE l.app.currentImageIndex]
        IN IF c.orphan THEN [l1 EXCEPT !.pending.confirm = NoConfirm]
           ELSE IF reorder
           THEN startLoad([l1 EXCEPT !.pending.confirm.pc = "reload"], c.file, c.n, TRUE)
           ELSE [l1 EXCEPT !.pending.confirm = NoConfirm,
                           !.list.confirmationDialog.isOpen = FALSE,
                           !.list.loading = FALSE]
  IN
  /\ pending.confirm.pc = "updating"
  /\ \E ok \in BOOLEAN : ListBecomes(confirmUpdatedDone(Ls, ok), "ConfirmUpdatedDone", FALSE)

LoadDone ==
  \* Run k of loadImageMetadata ends: every getStiImage(file, 0..n-1) answered
  \* (setImageMetadata, and the effect on imageMetadata resets the staging) or
  \* one of them failed (caught and logged); a run awaited by onConfirm lets
  \* onConfirm finish.
  LET loadDone(l, k, ok) ==
        LET load == l.pending.loads[k]
            frames == l.disk[load.file]
            success == ok /\ Len(frames) >= load.n
            l1 == [l EXCEPT !.pending.loads = RemoveLoad(l.pending.loads, k),
                            !.list.loading = FALSE]
            l2 == IF success
                  THEN [l1 EXCEPT !.list.imageMetadata = SubSeq(frames, 1, load.n),
                                  !.list.originalOrder = Identity(load.n),
                                  !.list.stagedOrder = Identity(load.n),
                                  !.list.hasUnsavedChanges = FALSE]
                  ELSE l1
        IN IF load.awaited
           THEN [l2 EXCEPT !.pending.confirm = NoConfirm,
                           !.list.confirmationDialog.isOpen = FALSE]
           ELSE l2
  IN
  \E k \in 1..Len(pending.loads), ok \in BOOLEAN :
    ListBecomes(loadDone(Ls, k, ok), "LoadDone", FALSE)

\* The tool bar shows the two mode buttons for files of several images and
\* disables them while App is loading.
ToggleManagement ==
  /\ ~DialogShown /\ ListRoom
  /\ appState.num_images > 1 /\ ~appState.loading
  /\ ListBecomes(handleToggleManagement(Ls), "ToggleManagement", TRUE)

ToggleMultiSelect ==
  /\ ~DialogShown /\ ListRoom
  /\ appState.num_images > 1 /\ ~appState.loading /\ appState.managementMode
  /\ ListBecomes(handleToggleMultiSelect(Ls), "ToggleMultiSelect", TRUE)

\* A click on another file in the file explorer.
FileSelectStart ==
  \* App's handleFileSelect up to its first await, and its end.
  LET fileSelectStart(l, f) ==
        IF f = l.app.currentFile THEN l
        ELSE [l EXCEPT !.app.loading = TRUE, !.pending.select = f]
  IN
  /\ ~DialogShown /\ ListRoom /\ pending.select = ""
  /\ Len(pending.loads) <= MaxLoads
  /\ \E f \in Files \ {appState.currentFile} :
       ListBecomes(fileSelectStart(Ls, f), "FileSelectStart", TRUE)

FileSelectDone ==
  LET fileSelectDone(l, ok) ==
        LET f == l.pending.select
            l1 == [l EXCEPT !.app.loading = FALSE, !.pending.select = ""]
        IN IF ok THEN [l1 EXCEPT !.app.currentFile = f,
                                 !.app.num_images = Len(l.disk[f]),
                                 !.app.currentImageIndex = 0]
           ELSE l1
  IN
  /\ pending.select # ""
  /\ \E ok \in BOOLEAN : ListBecomes(fileSelectDone(Ls, ok), "FileSelectDone", FALSE)

NextList ==
  \/ MoveUp \/ MoveDown \/ SaveChanges \/ CancelChanges
  \/ ToggleSelect \/ RangeSelect \/ SelectAll \/ DeselectAll \/ RemoveSelected
  \/ ItemClick \/ ImageDone
  \/ DialogCancel \/ DialogConfirm
  \/ ConfirmCallDone \/ ConfirmUpdatedDone \/ LoadDone
  \/ ToggleManagement \/ ToggleMultiSelect
  \/ FileSelectStart \/ FileSelectDone

\* A session on the image list in view mode; the editor is not open.
InitList ==
  \* App shows file f and has just mounted ImageList, whose first
  \* loadImageMetadata is under way.
  LET ListMounted(f) ==
        /\ appState = [currentFile |-> f, num_images |-> Len(InitialDisk[f]),
                       selectedImages |-> <<>>, managementMode |-> FALSE,
                       multiSelectMode |-> FALSE, loading |-> FALSE,
                       currentImageIndex |-> 0]
        /\ imageList = [FreshList(TRUE) EXCEPT !.loading = TRUE]
        /\ disk = InitialDisk
        /\ pending = [confirm |-> NoConfirm,
                      loads |-> <<[file |-> f, n |-> Len(InitialDisk[f]), awaited |-> FALSE]>>,
                      select |-> "", images |-> <<>>]
        /\ requests = <<>>
        /\ listOps = 0
        /\ lastOp = ""
        /\ AppIdle
  IN
  /\ EditorMounted(<<TRUE, SomePalette>>, 1, 0, 0)
  /\ \E f \in Files : ListMounted(f)

SpecList == InitList /\ [][NextList]_vars

(* ------------------------- App: specification ------------------------- *)
\* The state a handler leaves, installed, with the step recorded.
AppBecomes(a, name, pc, ok, counted) ==
  /\ state' = a.state
  /\ calls' = a.calls
  /\ service' = a.service
  /\ trace' = [a.trace EXCEPT
                 !.ops = IF counted THEN a.trace.ops + 1 ELSE a.trace.ops,
                 !.lastEvent = [name |-> name, pc |-> pc, ok |-> ok],
                 !.failed = a.trace.failed \/ ~ok]
  /\ UNCHANGED <<editorVars, listVars>>

\* App renders the tool bar, the file explorer, the viewer and the image
\* list in view mode, and the editor alone in edit mode.
ViewMode == ~state.isEditMode
EditMode == state.isEditMode /\ state.editableSti # NoEditable
\* One more intent of the user, one more run waiting for the backend.
AppRoom == trace.ops < MaxAppOps
CallRoom == Len(calls) < MaxCalls

\* A click on another file in the file explorer.
FileSelect ==
  /\ ViewMode /\ AppRoom /\ CallRoom
  /\ \E f \in Files \ {state.currentFile} :
       AppBecomes(handleFileSelect(Ap, f), "FileSelect", "", TRUE, TRUE)

\* The image list shows its loading view from the confirmation of a commit
\* until onConfirm has ended.
ListBusy ==
  \E k \in 1..Len(calls) : calls[k].handler \in {"onConfirm", "handleFileUpdated"}

\* A click on another frame: in the image list, shown for files of several
\* frames whether App is loading or not, or on a navigation button of the
\* viewer, shown while App is not loading.
ImageIndexChange ==
  /\ ViewMode /\ AppRoom /\ CallRoom /\ state.fileInfo.num_images > 1
  /\ ~ListBusy \/ (~state.loading /\ state.imageData # NoImage)
  /\ \E i \in 0..(state.fileInfo.num_images - 1) :
       /\ i # state.currentImageIndex
       /\ AppBecomes(changeImageIndex(Ap, i), "ImageIndexChange", "", TRUE, TRUE)

\* The Edit button: canEdit = currentFile !== null && !loading.
EnterEditMode ==
  /\ ViewMode /\ AppRoom /\ CallRoom
  /\ state.currentFile # "" /\ ~state.loading
  /\ AppBecomes(handleEnterEditMode(Ap), "EnterEditMode", "", TRUE, TRUE)

PaintStroke ==
  /\ EditMode /\ AppRoom /\ trace.revs < MaxRevs
  /\ AppBecomes(paintStroke(Ap), "PaintStroke", "", TRUE, TRUE)

EditImageChange ==
  /\ EditMode
  /\ \E i \in 0..(state.editableSti.num_images - 1) :
       /\ i # state.currentImageIndex
       /\ AppBecomes(handleEditImageChange(Ap, i), "EditImageChange", "", TRUE,
                     FALSE)

\* The Save button: disabled={!hasUnsavedChanges}.
Save ==
  /\ EditMode /\ AppRoom /\ CallRoom /\ state.hasUnsavedChanges
  /\ AppBecomes(handleSave(Ap), "Save", "", TRUE, TRUE)

\* The Cancel / Exit Edit Mode button.
ExitEditMode ==
  /\ EditMode /\ AppRoom
  /\ AppBecomes(handleExitEditMode(Ap), "ExitEditMode", "", TRUE, TRUE)

\* The confirmation of a staged reorder or of a removal in the image list.
ListCommit ==
  /\ ViewMode /\ AppRoom /\ CallRoom /\ trace.revs < MaxRevs
  /\ state.fileInfo.num_images > 1 /\ ~ListBusy
  /\ AppBecomes(listCommit(Ap), "ListCommit", "", TRUE, TRUE)

\* The backend answers the call a run is waiting for, or the call fails;
\* the 200 ms timer only ever fires.
Resume ==
  \E k \in 1..Len(calls), ok \in BOOLEAN :
    /\ calls[k].pc = "setTimeout" => ok
    /\ AppBecomes(Resumed(Ap, k, ok), calls[k].handler, calls[k].pc, ok, FALSE)

NextApp ==
  \/ FileSelect \/ ImageIndexChange \/ EnterEditMode
  \/ PaintStroke \/ EditImageChange \/ Save \/ ExitEditMode
  \/ ListCommit \/ Resume

\* A session of App on a file it has opened; the editor's own state is
\* not followed here.
InitApp ==
  /\ EditorMounted(<<TRUE, SomePalette>>, 1, 0, 0)
  /\ ListIdle
  /\ \E f \in Files : AppIs(Opened(f))

SpecApp == InitApp /\ [][NextApp]_vars

(* ------------------------------ claims -------------------------------- *)
\* The live collection and the history entries, arrays read out of the heap.
LiveVal == StiVal(heap, editableSti)
EntryVal(h, e) ==
  [editableSti |-> StiVal(h, e.editableSti),
   currentImageIndex |-> e.currentImageIndex,
   actionDescription |-> e.actionDescription]
HistoryVal(h, hist) == [k \in 1..Len(hist) |-> EntryVal(h, hist[k])]
\* What a handler's result shows of the collection, the frame and the log.
ResultVal(r) == StiVal(r.heap, r.editableSti)

\* C1: after any sequence of completed strokes, addFrame, deleteFrame, undo
\* and redo the history log is non-empty and 0 <= cursor <= length - 1.
C1_CursorValid ==
  /\ Len(history) >= 1
  /\ index >= 0
  /\ index <= Len(history) - 1

\* Two edits made and one of them undone: the cursor is inside the log.
C1_Witness ==
  /\ snapshots = 2 /\ Len(history) = 3 /\ index = 1 /\ PointerFree

\* C2: a snapshot appended while the cursor is not on the last entry discards
\* every entry beyond the cursor first: the entries up to the cursor are
\* kept, the new entry is the last one and the cursor points at it.
C2_BranchTruncation ==
  [][(snapshots' = snapshots + 1 /\ index < Len(history) - 1)
       => /\ Len(history') = index + 2
          /\ index' = index + 1
          /\ SubSeq(HistoryVal(heap', history'), 1, index + 1)
               = SubSeq(HistoryVal(heap, history), 1, index + 1)]_vars

\* The log [A, B, C] was undone to cursor 1 and a snapshot D taken: the log
\* is [A, B, D] with cursor 2 after three edits and one undo.
C2_Witness ==
  /\ snapshots = 3 /\ Len(history) = 3 /\ index = 2
  /\ history[3].actionDescription = "Completed brush stroke"
  /\ history[2].actionDescription = "Before adding new image"

\* C3: the log never holds more than 50 entries, and a snapshot appended to
\* a log of 50 entries (the cursor on the last of them, so that nothing is
\* truncated first) evicts the oldest entry, keeps the others in order and
\* leaves the cursor on the new last entry.
C3_Capacity ==
  /\ [](Len(history) <= HistoryLimit)
  /\ [][(snapshots' = snapshots + 1 /\ Len(history) = HistoryLimit
           /\ index = HistoryLimit - 1)
          => /\ Len(history') = HistoryLimit
             /\ index' = HistoryLimit - 1
             /\ SubSeq(HistoryVal(heap', history'), 1, HistoryLimit - 1)
                  = Tail(HistoryVal(heap, history))]_vars

\* The log is full, the cursor on its last entry, and the entry of the
\* loaded file has been evicted.
C3_Witness ==
  /\ Len(history) = HistoryLimit /\ index = HistoryLimit - 1
  /\ snapshots >= HistoryLimit
  /\ history[1].actionDescription # "Initial state"

\* C4: undo with cursor > 0 moves the cursor back by one and installs the
\* collection and frame index of the entry there as the live ones; redo with
\* cursor < length - 1 does the same one entry forward; the log is unchanged.
C4_UndoRedoInstall ==
  LET u == handleUndo(St)
      r == handleRedo(St)
  IN /\ index > 0 =>
          /\ u.index = index - 1
          /\ u.editableSti = history[index].editableSti
          /\ ResultVal(u) = StiVal(heap, history[index].editableSti)
          /\ u.currentImageIndex = history[index].currentImageIndex
          /\ u.history = history
          /\ HistoryVal(u.heap, u.history) = HistoryVal(heap, history)
     /\ index < Len(history) - 1 =>
          /\ r.index = index + 1
          /\ r.editableSti = history[index + 2].editableSti
          /\ ResultVal(r) = StiVal(heap, history[index + 2].editableSti)
          /\ r.currentImageIndex = history[index + 2].currentImageIndex
          /\ r.history = history
          /\ HistoryVal(r.heap, r.history) = HistoryVal(heap, history)

\* An undo has just been applied: the live collection is the entry under the
\* cursor, it differs from the next entry, and a redo is possible.
C4_Witness ==
  /\ isHistoryAction /\ index < Len(history) - 1
  /\ editableSti = history[index + 1].editableSti
  /\ LiveVal # StiVal(heap, history[index + 2].editableSti)

\* C5: undo at cursor 0 and redo on the last entry change nothing: not the
\* log, the cursor, the live collection, the frame index nor anything else.
C5_BoundaryNoOp ==
  /\ index = 0 => handleUndo(St) = St
  /\ index = Len(history) - 1 => handleRedo(St) = St

\* Undone back to cursor 0 with entries ahead: a further undo is the no-op.
C5_Witness ==
  /\ index = 0 /\ Len(history) = 3 /\ isHistoryAction
  /\ handleUndo(St) = St /\ handleRedo(St) # St

\* C6: with cursor > 0, undo, redo, undo leaves the cursor, the live
\* collection and the frame index as they were after the first undo.
C6_RoundTrip ==
  index > 0 =>
    LET first == handleUndo(St)
        third == handleUndo(handleRedo(first))
    IN /\ third.index = first.index
       /\ ResultVal(third) = ResultVal(first)
       /\ third.currentImageIndex = first.currentImageIndex

\* A state from which the round trip visibly moves: the redo brings back a
\* collection other than the one the undos install.
C6_Witness ==
  /\ index > 0 /\ PointerFree
  /\ ResultVal(handleRedo(handleUndo(St))) # ResultVal(handleUndo(St))
  /\ handleRedo(handleUndo(St)).index = index
  /\ LiveVal # ResultVal(handleUndo(St))

\* C7: the collection (and frame index and label) of an entry of the log
\* never changes while the entry stays in the log, whatever is painted,
\* added or deleted, also after undo or redo made the entry the live
\* collection. (An append drops the entries after the cursor and, on a full
\* log, moves every entry one place down.)
C7_SnapshotImmutable ==
  [][LET appended == snapshots' = snapshots + 1
         shift == IF appended /\ index + 2 > HistoryLimit THEN 1 ELSE 0
     IN \A k \in 1..Len(history) :
          ((appended => k <= index + 1) /\ k - shift >= 1)
            => /\ k - shift <= Len(history')
               /\ EntryVal(heap', history'[k - shift]) = EntryVal(heap, history[k])]_vars

\* A stroke is painting on a collection that an undo installed from the log:
\* the live collection is no longer equal to the entry under the cursor but
\* still shares a frame with it.
C7_Witness ==
  LET StiRefs(sti) == {sti.images[j].data : j \in 1..Len(sti.images)}
  IN
  /\ isDrawing /\ index < Len(history) - 1
  /\ LiveVal # StiVal(heap, history[index + 1].editableSti)
  /\ StiRefs(editableSti) \cap StiRefs(history[index + 1].editableSti) # {}

\* C8: a brush or eraser gesture appends exactly one entry, when it
\* completes, and that entry holds the result of the stroke; pointer-down
\* and pointer-move append nothing.
C8_StrokeBatching ==
  [][/\ isDrawing' => snapshots' = snapshots
     /\ (isDrawing /\ ~isDrawing')
          => /\ snapshots' = snapshots + 1
             /\ index' = Len(history') - 1
             /\ StiVal(heap', history'[Len(history')].editableSti)
                  = StiVal(heap', editableSti')]_vars

\* C9: addFrame and an accepted deleteFrame append exactly one entry that
\* holds the collection as it was before the edit, and the undo right after
\* the edit makes the live collection equal to that collection.
C9_StructuralUndo ==
  PointerFree =>
    /\ LET a == addNewImage(St)
       IN /\ a.snapshots = snapshots + 1
          /\ StiVal(a.heap, a.history[Len(a.history)].editableSti) = LiveVal
          /\ ResultVal(handleUndo(a)) = LiveVal
    /\ Len(editableSti.images) > 1 =>
         LET d == deleteCurrentImage(St)
         IN /\ d.snapshots = snapshots + 1
            /\ StiVal(d.heap, d.history[Len(d.history)].editableSti) = LiveVal
            /\ ResultVal(handleUndo(d)) = LiveVal

\* C10: the collection as loaded is entry 0 of the log with the cursor on it
\* when editing begins, it stays entry 0, and one undo after the first edit
\* (stroke, addFrame or deleteFrame) makes the live collection equal to it.
C10_LoadedEntry ==
  /\ StiVal(heap, history[1].editableSti) = loaded
  /\ history[1].actionDescription = "Initial state"
  /\ edits = 0 => /\ index = 0 /\ Len(history) = 1 /\ LiveVal = loaded
  /\ (edits = 1 /\ PointerFree /\ index > 0)
       => /\ index = 1
          /\ ResultVal(handleUndo(St)) = loaded
          /\ handleUndo(St).index = 0

\* The first edit changed the collection and one undo has brought the
\* loaded collection back.
C10_Witness ==
  /\ edits = 1 /\ index = 0 /\ Len(history) = 2 /\ isHistoryAction
  /\ LiveVal = loaded /\ hasUnsavedChanges
  /\ StiVal(heap, history[2].editableSti) # loaded

\* C11: the live collection always has at least one frame, whatever is
\* painted, added, deleted, undone or redone, and deleteFrame on a one-frame
\* collection removes nothing (it changes nothing at all).
C11_AtLeastOneFrame ==
  /\ Len(editableSti.images) >= 1
  /\ \A k \in 1..Len(history) : Len(history[k].editableSti.images) >= 1
  /\ Len(editableSti.images) = 1 => deleteCurrentImage(St) = St

\* A frame was deleted and one frame is left: a further delete is refused.
C11_Witness ==
  /\ Len(editableSti.images) = 1 /\ PointerFree /\ ~isHistoryAction
  /\ history[Len(history)].actionDescription = "Before deleting image 2"
  /\ index = Len(history) - 1
  /\ Len(history[Len(history)].editableSti.images) = 2

\* C12: every frame of the live collection holds width*height samples in
\* indexed mode and 2*width*height samples in 16-bit mode.
C12_SampleLength ==
  \A j \in 1..Len(editableSti.images) :
    LET img == editableSti.images[j]
    IN ArrLen(heap[img.data])
         = (IF editableSti.is_8bit THEN 1 ELSE 2) * img.width * img.height

C14_StagedPermutation ==
  imageList.mounted
    => IsPermutation(imageList.stagedOrder, Len(imageList.imageMetadata))

C16_DirtyFlag ==
  /\ imageList.hasUnsavedChanges
       <=> (imageList.stagedOrder # imageList.originalOrder)
  /\ (ListFree /\ ~imageList.hasUnsavedChanges)
       => \A k \in 2..Len(DisplayOrder(Ls)) :
            LET i == DisplayOrder(Ls)[k]
                up == handleMoveUp(Ls, i)
            IN /\ up.list.hasUnsavedChanges
               /\ ~handleMoveDown(up, i).list.hasUnsavedChanges

\* C17: moveUp of a frame swaps it with the frame one staged position
\* earlier, moveDown with the frame one position later; every other position
\* and everything beside the staged order and the dirty flag stay as they
\* were. moveUp at the first position and moveDown at the last change
\* nothing at all.
C17_MoveSwaps ==
  imageList.mounted =>
    LET staged == imageList.stagedOrder
        n == Len(staged)
        swapped(p, q) == [k \in 1..n |-> IF k = p THEN staged[q]
                                         ELSE IF k = q THEN staged[p]
                                         ELSE staged[k]]
        only(r, new) ==
          r = [Ls EXCEPT !.list.stagedOrder = new,
                         !.list.hasUnsavedChanges = (new # imageList.originalOrder)]
    IN \A p \in 1..n :
         IsPermutation(staged, n) =>
           LET up == handleMoveUp(Ls, staged[p])
               down == handleMoveDown(Ls, staged[p])
           IN /\ IF p = 1 THEN up = Ls ELSE only(up, swapped(p - 1, p))
              /\ IF p = n THEN down = Ls ELSE only(down, swapped(p, p + 1))

\* The second frame of file A was moved up: the first two staged positions
\* are swapped, the third is untouched.
C17_Witness ==
  /\ lastOp = "MoveUp" /\ appState.currentFile = "A"
  /\ imageList.stagedOrder = <<1, 0, 2>>
  /\ imageList.originalOrder = <<0, 1, 2>>
  /\ imageList.hasUnsavedChanges

\* C18: a confirmed commit sends the reorder request while dirty, for the
\* file shown and with the staged order as it is then; and when the commit
\* whose call succeeded has run to its end, the list holds the frames in the
\* new order, the staged order is the identity over them and dirty is false.
C18_Commit ==
  [][/\ (lastOp' = "DialogConfirm" /\ requests'[Len(requests')].op = "reorder")
          => /\ imageList.hasUnsavedChanges
             /\ requests'[Len(requests')].arg = imageList.stagedOrder
             /\ requests'[Len(requests')].file = appState.currentFile
     /\ (pending.confirm.pc = "reload" /\ pending'.confirm.pc = "idle")
          => /\ imageList'.imageMetadata = disk[pending.confirm.file]
             /\ imageList'.stagedOrder = Identity(Len(disk[pending.confirm.file]))
             /\ imageList'.originalOrder = imageList'.stagedOrder
             /\ ~imageList'.hasUnsavedChanges]_vars

\* C19: a commit while dirty is false changes nothing: no confirmation is
\* opened, no request is sent, and the staged order, the original order and
\* the dirty flag stay as they are.
C19_CleanCommitNoOp ==
  (imageList.mounted /\ ~imageList.hasUnsavedChanges)
    => LET r == handleSaveChanges(Ls)
       IN /\ r.list.confirmationDialog = imageList.confirmationDialog
          /\ r.requests = requests
          /\ r.pending = pending
          /\ r.disk = disk
          /\ r.list.stagedOrder = imageList.stagedOrder
          /\ r.list.originalOrder = imageList.originalOrder
          /\ r.list.hasUnsavedChanges = imageList.hasUnsavedChanges
          /\ r = Ls

\* The list is on screen in management mode and clean again after a frame
\* was moved up and back down; nothing was ever sent.
C19_Witness ==
  /\ ListFree /\ appState.managementMode /\ ~imageList.hasUnsavedChanges
  /\ lastOp = "MoveDown"
  /\ imageList.stagedOrder = imageList.originalOrder
  /\ Len(imageList.stagedOrder) = 3
  /\ requests = <<>>

C21_SelectionInRange ==
  \A i \in Range(appState.selectedImages) :
    i >= 0 /\ i < appState.num_images

\* C22: a plain click on an item is a single-select: afterwards the selection
\* is exactly that frame, whatever it held before, and the last-touched
\* index is that frame.
C22_SingleSelect ==
  ListFree =>
    \A k \in 1..Len(DisplayOrder(Ls)) :
      LET i == DisplayOrder(Ls)[k]
          r == Effects(Ls, itemClick(Ls, i, FALSE, FALSE))
      IN /\ Range(r.app.selectedImages) = {i}
         /\ r.list.lastSelectedIndex = i

\* C23: a toggle of frame i flips the membership of i and of no other index,
\* creates no duplicate entry and makes i the last-touched index; a second
\* toggle of i restores the set.
C23_ToggleFlips ==
  \* The selection after the toggle gesture on frame i that the mode offers:
  \* the checkbox in multi-select mode, Ctrl+click on the item in normal mode
  \* (management mode without multi-select offers none). React's effects have
  \* run.
  LET ToggleGesture(l, i) ==
        IF l.app.managementMode
        THEN Effects(l, checkboxClick(l, i, FALSE))
        ELSE Effects(l, itemClick(l, i, TRUE, FALSE))
  IN
  (ListFree /\ (appState.multiSelectMode \/ ~appState.managementMode)) =>
    \A k \in 1..Len(DisplayOrder(Ls)) :
      LET i == DisplayOrder(Ls)[k]
          before == Range(appState.selectedImages)
          r == ToggleGesture(Ls, i)
          after == Range(r.app.selectedImages)
      IN /\ after = (IF i \in before THEN before \ {i} ELSE before \cup {i})
         /\ Cardinality(after) = Len(r.app.selectedImages)
         /\ r.list.lastSelectedIndex = i
         /\ Range(ToggleGesture(r, i).app.selectedImages) = before

C25_RemovalDiscardsStaging ==
  LET file == appState.currentFile
      left == Len(disk[file])
  IN (/\ imageList.mounted /\ ~imageList.loading
      /\ lastOp \in {"ConfirmUpdatedDone", "LoadDone"}
      /\ pending.confirm.pc = "idle" /\ pending.loads = <<>>
      /\ pending.select = "" /\ pending.images = <<>>
      /\ requests # <<>>
      /\ requests[Len(requests)].op = "remove"
      /\ requests[Len(requests)].file = file
      /\ left < Len(InitialDisk[file]))
       => /\ imageList.stagedOrder = Identity(left)
          /\ ~imageList.hasUnsavedChanges
          /\ \A i \in Range(appState.selectedImages) : i < left

\* C26: a press or a move of the pointer outside the image changes neither
\* the live collection nor the history log (entries and cursor) nor the
\* selected colour, with any tool, and starts no stroke; a move outside the
\* image during a stroke changes nothing at all.
C26_OutOfRangeIgnored ==
  \* Pointer positions beside the current image, one past each edge.
  LET OutOfRange(s) ==
        LET img == CurrentImage(s)
        IN {<<-1, 0>>, <<0, -1>>, <<img.width, 0>>, <<0, img.height>>,
            <<img.width, img.height - 1>>, <<img.width - 1, img.height>>,
            <<-1, -1>>, <<img.width, img.height>>}
  IN
  \A p \in OutOfRange(St), t \in Tools :
    LET down == handleMouseDown(setTool(St, t), p[1], p[2])
        move == handleMouseMove(setTool(St, t), p[1], p[2])
        same(r) == /\ r.editableSti = editableSti /\ r.heap = heap
                   /\ r.history = history /\ r.index = index
                   /\ r.selectedColor = selectedColor
                   /\ r.hasUnsavedChanges = hasUnsavedChanges
                   /\ r.isDrawing = isDrawing
                   /\ r.strokeStarted = strokeStarted
                   /\ r.snapshots = snapshots
    IN /\ PointerFree => same(down) /\ handleMouseUp(down).history = history
       /\ same(move)
       /\ isDrawing => move = setTool(St, t)

\* The brush was pressed beside the image of the loaded file: the press is
\* taken for a drag, no stroke has begun and nothing has changed.
C26_Witness ==
  /\ isDragging /\ ~isDrawing /\ ~strokeStarted /\ tool = "brush"
  /\ LiveVal = loaded /\ Len(history) = 1 /\ ~hasUnsavedChanges

\* The pixels of the frame shown that are tried: its corners.
Pixels(s) ==
  LET img == CurrentImage(s)
  IN {<<0, 0>>, <<img.width - 1, 0>>, <<0, img.height - 1>>,
      <<img.width - 1, img.height - 1>>}

\* The indices the palette panel offers.
PaletteIndices(s) == 0..(Len(s.editableSti.palette.colors) - 1)

\* C27: in indexed mode, a brush stroke of palette index c (one the palette
\* panel offers, or the one selected) at a pixel of the frame followed by a
\* press of the eyedropper on the same pixel leaves c as the selected colour; a press of the eyedropper anywhere changes no sample
\* of any frame, appends no history entry and starts no stroke.
C27_EyedropperReadsPaint ==
  (PointerFree /\ HasCurrentImage(St)) =>
    /\ editableSti.is_8bit =>
         \A p \in Pixels(St), c \in PaletteIndices(St) \cup {selectedColor} :
           LET brush == setSelectedColor(setTool(St, "brush"), c)
               down == Collect(handleMouseDown(brush, p[1], p[2]))
               up == Collect(handleMouseUp(down))
               pick == handleMouseDown(setTool(up, "eyedropper"), p[1], p[2])
           IN /\ pick.selectedColor = c
              /\ Collect(pick).selectedColor = c
    /\ \A p \in Targets(St) :
         LET eye == setTool(St, "eyedropper")
             pick == handleMouseDown(eye, p[1], p[2])
         IN /\ pick.heap = heap /\ pick.editableSti = editableSti
            /\ pick.history = history /\ pick.index = index
            /\ ~pick.isDrawing
            /\ handleMouseUp(pick).history = history
            /\ handleMouseUp(pick).heap = heap
            /\ handleMouseUp(pick).editableSti = editableSti

\* Sample o of frame j of the collection sti.
Sample(h, sti, j, o) == ArrGet(h[sti.images[j].data], o)

\* Index 2, which the palette panel does not offer, was picked from the first
\* sample of the second frame and painted on the second sample of the first
\* frame; a later brush stroke of index 0 overwrote the sample it came from,
\* and the eyedropper has read it back from the painted sample.
C27_Witness ==
  /\ tool = "eyedropper" /\ selectedColor = 2 /\ PointerFree
  /\ Len(editableSti.images) = 2 /\ Len(history) = 3 /\ index = 2
  /\ Sample(heap, history[2].editableSti, 1, 1) = 2
  /\ Sample(heap, history[2].editableSti, 2, 0) = 2
  /\ history[3].actionDescription = "Completed brush stroke"
  /\ Sample(heap, history[3].editableSti, 2, 0) = 0
  /\ Sample(heap, editableSti, 1, 1) = 2
  /\ Sample(heap, editableSti, 1, 0) = 1
  /\ Sample(heap, editableSti, 2, 0) = 0
  /\ Sample(heap, editableSti, 2, 1) = 0

\* The offsets at which a run of equal samples of the array begins, the
\* first of them at offset o.
RECURSIVE RunStarts(_, _)
RunStarts(a, o) ==
  IF a = <<>> THEN {} ELSE {o} \cup RunStarts(Tail(a), o + Head(a).n)

\* The array new is the array old with sample target set to v and every
\* other sample as it was: the two have one length and agree, but for the
\* target, wherever a run of either begins and right after the target.
SetsOnly(old, new, target, v) ==
  /\ ArrLen(new) = ArrLen(old)
  /\ \A o \in (RunStarts(old, 0) \cup RunStarts(new, 0)
                 \cup {target, target + 1}) \cap (0..(ArrLen(old) - 1)) :
       ArrGet(new, o) = IF o = target THEN v ELSE ArrGet(old, o)

\* What a paint (handler result r) leaves of the collection but for the data
\* of the frame shown: the other frames, the order and the dimensions of
\* all frames, the palette and the mode.
RestUnchanged(r) ==
  /\ Len(r.editableSti.images) = Len(editableSti.images)
  /\ r.currentImageIndex = currentImageIndex
  /\ r.editableSti.palette = editableSti.palette
  /\ r.editableSti.is_8bit = editableSti.is_8bit
  /\ \A j \in 1..Len(editableSti.images) :
       /\ r.editableSti.images[j].width = editableSti.images[j].width
       /\ r.editableSti.images[j].height = editableSti.images[j].height
       /\ j # currentImageIndex + 1 =>
            /\ r.editableSti.images[j] = editableSti.images[j]
            /\ r.heap[r.editableSti.images[j].data]
                 = heap[editableSti.images[j].data]

\* C28: in indexed mode a press of the brush on pixel (x, y) of the frame
\* shown, and a move of the brush onto it during a stroke, set the sample at
\* offset y*W+x of that frame to the selected palette index and change no
\* other sample of it, no other frame, and neither the palette nor the
\* dimensions nor the order of the frames.
C28_BrushSetsOneSample ==
  (HasCurrentImage(St) /\ editableSti.is_8bit) =>
    \A p \in Pixels(St), c \in PaletteIndices(St) \cup {selectedColor} :
      LET brush == setSelectedColor(setTool(St, "brush"), c)
          img == CurrentImage(St)
          target == p[2] * img.width + p[1]
          painted(r) ==
            /\ RestUnchanged(r)
            /\ SetsOnly(heap[img.data], r.heap[CurrentImage(r).data], target, c)
      IN /\ PointerFree => painted(handleMouseDown(brush, p[1], p[2]))
         /\ isDrawing => painted(handleMouseMove(brush, p[1], p[2]))

\* A brush stroke of index 1 has begun on the second pixel of the 2x1 frame
\* shown of the loaded file: that sample holds 1 and the first sample holds
\* the frame's number, as loaded.
C28_Witness ==
  /\ isDrawing /\ tool = "brush" /\ editableSti.is_8bit /\ selectedColor = 1
  /\ moves = 0 /\ edits = 1 /\ Len(history) = 1
  /\ Len(editableSti.images) = Len(loaded.images)
  /\ CurrentImage(St).width = LoadedWidth
  /\ Sample(heap, editableSti, currentImageIndex + 1, 1) = 1
  /\ Sample(heap, editableSti, currentImageIndex + 1, 0) = currentImageIndex + 1

\* C29: a press of the eraser on a pixel of the frame shown, and a move of
\* the eraser onto it during a stroke, set the sample of that pixel to index
\* 0 in indexed mode, whatever colour is selected, and change nothing else of
\* the collection; in packed 16-bit mode they change no sample at all.
C29_EraserClears ==
  HasCurrentImage(St) =>
    \A p \in Pixels(St), c \in PaletteIndices(St) \cup {selectedColor} :
      LET eraser == setSelectedColor(setTool(St, "eraser"), c)
          img == CurrentImage(St)
          target == p[2] * img.width + p[1]
          erased(r) ==
            /\ RestUnchanged(r)
            /\ IF editableSti.is_8bit
               THEN SetsOnly(heap[img.data], r.heap[CurrentImage(r).data],
                             target, 0)
               ELSE r.heap[CurrentImage(r).data] = heap[img.data]
      IN /\ PointerFree => erased(handleMouseDown(eraser, p[1], p[2]))
         /\ isDrawing => erased(handleMouseMove(eraser, p[1], p[2]))

\* With index 1 selected, an eraser stroke has begun on the first pixel of
\* the 2x1 indexed frame shown of the loaded file: that sample, loaded with
\* the frame's number, holds 0 now.
C29_Witness ==
  /\ isDrawing /\ tool = "eraser" /\ editableSti.is_8bit /\ selectedColor = 1
  /\ moves = 0 /\ edits = 1 /\ Len(history) = 1
  /\ Len(editableSti.images) = Len(loaded.images)
  /\ CurrentImage(St).width = LoadedWidth
  /\ Sample(heap, editableSti, currentImageIndex + 1, 0) = 0
  /\ Sample(heap, editableSti, currentImageIndex + 1, 1) = 0

\* C30: single-flight: for each file, at most one commit-to-disk or open
\* call is outstanding at any time; a second one never starts before the
\* first has returned.
C30_SingleFlight ==
  \* The calls into the backend that write or open the collection of file f
  \* and have not returned: reorderImages / deleteImage of a confirmed dialog,
  \* openStiFile of the handleFileUpdated that follows it, and openStiFile of
  \* handleFileSelect.
  LET Outstanding(f) ==
        (IF pending.confirm.pc \in {"call", "updating"} /\ pending.confirm.file = f
         THEN 1 ELSE 0)
        + (IF pending.select = f THEN 1 ELSE 0)
  IN \A f \in Files : Outstanding(f) <= 1

\* C32: deleteCurrentImage on a collection of one frame is rejected before
\* anything is recorded: the history log and its cursor, the live
\* collection, the frame shown and the unsaved-changes flag are as before
\* (and so is the rest of the editor's state).
C32_RejectedDelete ==
  Len(editableSti.images) <= 1 =>
    LET r == deleteCurrentImage(St)
    IN /\ r.history = history /\ r.index = index /\ r.snapshots = snapshots
       /\ r.editableSti = editableSti /\ r.heap = heap
       /\ r.currentImageIndex = currentImageIndex
       /\ r.hasUnsavedChanges = hasUnsavedChanges
       /\ r = St

\* A two-frame file of which one frame has been deleted: the log holds the
\* snapshot of that delete, one frame is left, and the Delete button can be
\* clicked once more.
C32_Witness ==
  /\ Len(loaded.images) = 2 /\ Len(editableSti.images) = 1
  /\ Len(history) = 2 /\ index = 1 /\ edits = 1
  /\ history[2].actionDescription \in {"Before deleting image 1",
                                       "Before deleting image 2"}
  /\ PointerFree /\ Room /\ ~isHistoryAction /\ hasUnsavedChanges

\* C33: while the Replaying flag (isHistoryAction) is up no snapshot is
\* appended to the log, and no edit of the user loses its snapshot to the
\* flag: every completed stroke of the brush or the eraser and every added
\* or deleted frame appends one snapshot.
C33_ReplayingTransient ==
  [][/\ isHistoryAction => snapshots' = snapshots /\ Len(history') <= Len(history)
     /\ (isDrawing /\ ~isDrawing' /\ strokeStarted /\ tool \in StrokeTools)
          => snapshots' = snapshots + 1
     /\ (edits' = edits + 1 /\ ~isDrawing') => snapshots' = snapshots + 1]_vars

\* C34: after any edits, with nothing being replayed, a stroke (pointer down
\* on a pixel of the frame shown, pointer up) followed at once by an undo
\* leaves the live collection equal to the one that was live before the
\* pointer went down.
C34_UndoRevertsStroke ==
  (PointerFree /\ HasCurrentImage(St) /\ ~isHistoryAction /\ timers = 0
     /\ index = Len(history) - 1) =>
    \A p \in Pixels(St) :
      LET down == Collect(handleMouseDown(St, p[1], p[2]))
          up == Collect(handleMouseUp(down))
          undo == handleUndo(up)
      IN ResultVal(undo) = LiveVal

\* C35: with nothing being replayed, any single edit followed by undo and
\* then redo leaves the live collection and the frame shown as they were
\* right after the edit.
C35_RedoReappliesEdit ==
  \* The states one edit of the user leads to: a stroke on a pixel of the
  \* frame shown, an added frame, a deleted frame.
  LET SingleEdits(s) ==
        {Collect(handleMouseUp(Collect(handleMouseDown(s, p[1], p[2])))) :
           p \in Pixels(s)}
        \cup {Collect(addNewImage(s))}
        \cup (IF Len(s.editableSti.images) > 1 THEN {Collect(deleteCurrentImage(s))}
              ELSE {})
  IN
  (PointerFree /\ HasCurrentImage(St) /\ ~isHistoryAction /\ timers = 0
     /\ index = Len(history) - 1) =>
    \A after \in SingleEdits(St) :
      LET redo == handleRedo(handleUndo(after))
      IN /\ ResultVal(redo) = ResultVal(after)
         /\ redo.currentImageIndex = after.currentImageIndex

\* C37: in view mode, in a session in which no backend call has failed and
\* edit mode was never asked for, loading is false only when no request is
\* outstanding, and once none is outstanding imageData is frame
\* currentImageIndex of currentFile, fileInfo and metadata belong to
\* currentFile, and currentFile is the file selected last.
C37_ViewConsistent ==
  \* The runs of handleFileSelect, handleImageIndexChange and
  \* handleFileUpdated that wait for the backend.
  LET ViewRequests ==
        {k \in 1..Len(calls) :
           calls[k].handler \in {"handleFileSelect", "handleImageIndexChange",
                                 "handleFileUpdated"}}
  IN
  (ViewMode /\ ~trace.failed /\ trace.editors = 0
     /\ \A k \in 1..Len(calls) : calls[k].handler # "handleEnterEditMode") =>
    /\ ~state.loading => ViewRequests = {}
    /\ (calls = <<>>) =>
         /\ state.imageData.file = state.currentFile
         /\ state.imageData.index = state.currentImageIndex
         /\ state.fileInfo.file = state.currentFile
         /\ state.metadata = state.currentFile
         /\ state.currentFile = trace.lastSelected

\* C31: no openStiFile, getStiImage or getStiMetadata of a file is issued
\* between a write of that file (saveStiFile of the editor, reorderImages
\* or a removal of the image list) and the completion of the clearStiCache
\* that follows the write.
C31_InvalidateBeforeDecode == ~trace.staleDecode

\* C36: in edit mode currentImageIndex is an index of a frame of the live
\* collection.
C36_ActiveFrameValid ==
  EditMode =>
    /\ 0 <= state.currentImageIndex
    /\ state.currentImageIndex < state.editableSti.num_images

\* C38: in edit mode handleFileSelect returns at once for every file, no
\* step taken in edit mode changes currentFile, fileInfo or the file of
\* the live collection while edit mode lasts, and edit mode ends only with
\* handleExitEditMode or with the end of handleSaveEdit.
C38_EditModeKeepsFile ==
  [][EditMode =>
       /\ \A f \in Files : handleFileSelect(Ap, f) = Ap
       /\ state'.isEditMode =>
            /\ state'.currentFile = state.currentFile
            /\ state'.fileInfo = state.fileInfo
            /\ state'.editableSti.file_path = state.editableSti.file_path
       /\ ~state'.isEditMode =>
            trace'.lastEvent.name \in {"ExitEditMode", "handleSaveEdit"}]_vars

\* C39: when saveStiFile fails, the step that handles the failure leaves
\* isEditMode, the live collection and hasUnsavedChanges as they were,
\* starts neither clearStiCache nor a reload, and puts a message in
\* state.error.
C39_SaveFailureReported ==
  [][trace'.lastEvent = [name |-> "handleSave", pc |-> "saveStiFile",
                         ok |-> FALSE] =>
       /\ state'.isEditMode = state.isEditMode
       /\ state'.editableSti = state.editableSti
       /\ state'.hasUnsavedChanges = state.hasUnsavedChanges
       /\ Len(calls') = Len(calls) - 1
       /\ \A k \in 1..Len(calls') : calls'[k].handler # "handleSaveEdit"
                                       \/ \E j \in 1..Len(calls) : calls[j] = calls'[k]
       /\ state'.error # ""]_vars

\* C40: a step that turns management mode off leaves the staged order equal
\* to the committed order with the dirty flag down, the selection empty and
\* multi-select mode off, and sends no request; and a reorder request is
\* only ever sent while management mode is on, so none is sent for a
\* staging that leaving management mode discarded.
C40_LeavingDiscards ==
  [][/\ (appState.managementMode /\ ~appState'.managementMode) =>
          /\ arraysEqual(imageList'.stagedOrder, imageList'.originalOrder)
          /\ ~imageList'.hasUnsavedChanges
          /\ appState'.selectedImages = <<>>
          /\ ~appState'.multiSelectMode
          /\ requests' = requests
     /\ (/\ Len(requests') > Len(requests)
         /\ requests'[Len(requests')].op = "reorder") =>
          appState.managementMode]_vars

====
